---- MODULE Spec2Model ----
(***************************************************************************)
(* Catch-the-cat competition: the hexagonal Board (src/src/board.ts), the  *)
(* move request, the match simulator, the scoring and the competition      *)
(* driver (src/generateReport.ts).                                         *)
(*                                                                         *)
(* A match is one run of runMatch.  Its steps are the JavaScript event     *)
(* loop's macro steps: a callback of the outstanding move request          *)
(* (exec callback, timeout timer, child 'error' event) runs to completion, *)
(* and when it resolves the request's promise the continuation of runMatch *)
(* runs with it, up to the next await or to the return.                    *)
(***************************************************************************)
EXTENDS Integers, Sequences, FiniteSets, TLC

VARIABLES
    board,        \* the Board object: side, turn, board, catPosition
    pc,           \* position of runMatch: "start", "await", "done", "threw";
                  \* "board" when a Board object is driven directly
    moveCount,    \* runMatch: let moveCount
    report,       \* runMatch: the MatchReport being filled
    req,          \* closure of the latest requestMove call
    timers,       \* ids of the requests whose setTimeout timer is pending
    requestsIssued, \* number of requestMove calls made so far
    moveCalls,    \* number of board.move() calls made so far
    lastMove,     \* the latest board.move() call: its argument and whether it threw
    setup,        \* the inputs: of a match, its initial layout and the agents' style;
                  \* of the competition, its boards and the users' programs
    driver        \* main(): its position, matchReports and the report it writes

vars == <<board, pc, moveCount, report, req, timers, requestsIssued, moveCalls, lastMove,
          setup, driver>>

-----------------------------------------------------------------------------
(* JavaScript arithmetic used by the code *)

\* a % b of JavaScript for b > 0: the result has the sign of a
JsRem(a, b) == IF a >= 0 THEN a % b ELSE -((-a) % b)

Abs(a) == IF a >= 0 THEN a ELSE -a

\* Math.sqrt of a length, when it is an integer; -1 stands for "not an integer"
RECURSIVE SqrtFrom(_, _)
SqrtFrom(n, r) == IF r * r = n THEN r ELSE IF r * r > n THEN -1 ELSE SqrtFrom(n, r + 1)

IntSqrt(n) == SqrtFrom(n, 0)

-----------------------------------------------------------------------------
(* src/src/board.ts *)

Cat == "cat"
Catcher == "catcher"

Position(x, y) == [x |-> x, y |-> y]

\* a character that /\s/ matches
IsWhitespace(c) == c = " "

\* board.replace(/\s+/g, ''): the string without its white space
RECURSIVE RemoveWhitespace(_)
RemoveWhitespace(s) ==
    IF s = <<>> THEN <<>>
    ELSE IF IsWhitespace(Head(s)) THEN RemoveWhitespace(Tail(s))
    ELSE <<Head(s)>> \o RemoveWhitespace(Tail(s))

\* .replace('C', '.'): the first 'C' of the string, if any, becomes '.'
RECURSIVE ReplaceFirstC(_)
ReplaceFirstC(s) ==
    IF s = <<>> THEN <<>>
    ELSE IF Head(s) = "C" THEN <<".">> \o Tail(s)
    ELSE <<Head(s)>> \o ReplaceFirstC(Tail(s))

\* the string the constructor keeps in this.board
CleanLayout(layout) == ReplaceFirstC(RemoveWhitespace(layout))

\* a constructor that takes any perfect square for a board
BoardThrows_AnySquare(layout) == IntSqrt(Len(CleanLayout(layout))) = -1

\* new Board(board, ...) throws: the length is no perfect square, or the side
\* is not 4*i+1
BoardThrows(layout) ==
    LET side == IntSqrt(Len(CleanLayout(layout)))
    IN  IF side = -1 THEN TRUE
        ELSE IF JsRem(side - 1, 4) /= 0 THEN TRUE
        ELSE FALSE

\* the object that new Board(board, catPosition, ...) builds when it does not throw
NewBoard(layout, catPosition) ==
    [side |-> IntSqrt(Len(CleanLayout(layout))), turn |-> Cat,
     board |-> CleanLayout(layout), catPosition |-> catPosition]

E(p) == Position(p.x + 1, p.y)
W(p) == Position(p.x - 1, p.y)

\* a north-east step that takes only the rows with p.y % 2 = 1 for odd
NE_PositiveOdd(p) ==
    IF JsRem(p.y, 2) = 1 THEN Position(p.x + 1, p.y - 1) ELSE Position(p.x, p.y - 1)

NE(p) == IF JsRem(p.y, 2) /= 0 THEN Position(p.x + 1, p.y - 1) ELSE Position(p.x, p.y - 1)

NW(p) == IF JsRem(p.y, 2) /= 0 THEN Position(p.x, p.y - 1) ELSE Position(p.x - 1, p.y - 1)

SE(p) == IF JsRem(p.y, 2) /= 0 THEN Position(p.x, p.y + 1) ELSE Position(p.x - 1, p.y + 1)

SW(p) == IF JsRem(p.y, 2) /= 0 THEN Position(p.x + 1, p.y + 1) ELSE Position(p.x, p.y + 1)

\* the array [NE, NW, E, W, SE, SW] of isNeighbor and catcherWinVerification
Neighbors(p) == <<NE(p), NW(p), E(p), W(p), SE(p), SW(p)>>

SideOver2(b) == b.side \div 2

isValidPosition(b, p) ==
    /\ p.x >= -SideOver2(b)
    /\ p.x <= SideOver2(b)
    /\ p.y <= SideOver2(b)
    /\ p.y >= -SideOver2(b)

\* a neighbour test that leaves out the last entry of the array
isNeighbor_FirstFive(p1, p2) == \E i \in 1..5 : Neighbors(p1)[i] = p2

isNeighbor(p1, p2) == \E i \in 1..6 : Neighbors(p1)[i] = p2

\* 0-based index into the layout string
positionToIndex(b, p) == (p.y + SideOver2(b)) * b.side + p.x + SideOver2(b)

\* an inverse that takes the row for x and the column for y
indexToPosition_Transposed(b, index) ==
    Position((index \div b.side) - SideOver2(b), JsRem(index, b.side) - SideOver2(b))

indexToPosition(b, index) ==
    Position(JsRem(index, b.side) - SideOver2(b), (index \div b.side) - SideOver2(b))

\* true = blocked
getContent(b, p) ==
    IF ~isValidPosition(b, p) THEN TRUE
    ELSE b.board[positionToIndex(b, p) + 1] = "#"

\* a setContent that computes the index with x and y exchanged
setContent_Transposed(b, p, blocked) ==
    IF ~isValidPosition(b, p) THEN b.board
    ELSE [b.board EXCEPT ![(p.x + SideOver2(b)) * b.side + p.y + SideOver2(b) + 1] =
                             IF blocked THEN "#" ELSE "."]

\* the board string after setContent(p, blocked)
setContent(b, p, blocked) ==
    IF ~isValidPosition(b, p) THEN b.board
    ELSE [b.board EXCEPT ![positionToIndex(b, p) + 1] = IF blocked THEN "#" ELSE "."]

catWinVerification(b) ==
    \/ Abs(b.catPosition.x) = SideOver2(b)
    \/ Abs(b.catPosition.y) = SideOver2(b)

catcherWinVerification(b) ==
    \A i \in 1..6 : getContent(b, Neighbors(b.catPosition)[i])

\* a cat that may only step east or west
catCanMoveToPosition_EastWest(b, p) ==
    (p = E(b.catPosition) \/ p = W(b.catPosition)) /\ ~getContent(b, p)

\* a cat that may step on any neighbour, blocked or off the board
catCanMoveToPosition_AnyNeighbor(b, p) == isNeighbor(b.catPosition, p)

catCanMoveToPosition(b, p) == isNeighbor(b.catPosition, p) /\ ~getContent(b, p)

\* a catcher that may block the cell the cat is on
catcherCanMoveToPosition_OnCat(b, p) ==
    /\ Abs(p.x) <= SideOver2(b)
    /\ Abs(p.y) <= SideOver2(b)
    /\ ~getContent(b, p)

catcherCanMoveToPosition(b, p) ==
    /\ p /= b.catPosition
    /\ Abs(p.x) <= SideOver2(b)
    /\ Abs(p.y) <= SideOver2(b)
    /\ ~getContent(b, p)

validateMove(b, p) ==
    IF b.turn = Cat THEN catCanMoveToPosition(b, p) ELSE catcherCanMoveToPosition(b, p)

OtherTurn(t) == IF t = Cat THEN Catcher ELSE Cat

\* a move() that switches the turn only after the cat has moved
move_TurnStuck(b, p) ==
    IF ~validateMove(b, p) THEN [threw |-> TRUE, board |-> b]
    ELSE [threw |-> FALSE,
          board |-> [b EXCEPT
              !.catPosition = IF b.turn = Cat THEN p ELSE b.catPosition,
              !.board = IF b.turn = Cat THEN b.board ELSE setContent(b, p, TRUE),
              !.turn = Catcher]]

\* a move() that switches the turn before it validates
move_FlipsFirst(b, p) ==
    IF ~validateMove(b, p) THEN [threw |-> TRUE, board |-> [b EXCEPT !.turn = OtherTurn(b.turn)]]
    ELSE [threw |-> FALSE,
          board |-> [b EXCEPT
              !.catPosition = IF b.turn = Cat THEN p ELSE b.catPosition,
              !.board = IF b.turn = Cat THEN b.board ELSE setContent(b, p, TRUE),
              !.turn = OtherTurn(b.turn)]]

\* a move() that does not validate
move_NoValidate(b, p) ==
    [threw |-> FALSE,
     board |-> [b EXCEPT
         !.catPosition = IF b.turn = Cat THEN p ELSE b.catPosition,
         !.board = IF b.turn = Cat THEN b.board ELSE setContent(b, p, TRUE),
         !.turn = OtherTurn(b.turn)]]

\* board.move(position): [threw, board after the call]
move(b, p) ==
    IF ~validateMove(b, p) THEN [threw |-> TRUE, board |-> b]
    ELSE [threw |-> FALSE,
          board |-> [b EXCEPT
              !.catPosition = IF b.turn = Cat THEN p ELSE b.catPosition,
              !.board = IF b.turn = Cat THEN b.board ELSE setContent(b, p, TRUE),
              !.turn = OtherTurn(b.turn)]]

\* a getGameResult that looks for the trapped cat first
getGameResult_TrapFirst(b) ==
    IF catcherWinVerification(b) THEN [isOver |-> TRUE, winner |-> Catcher]
    ELSE IF catWinVerification(b) THEN [isOver |-> TRUE, winner |-> Cat]
    ELSE [isOver |-> FALSE, winner |-> "none"]

\* getGameResult(): isOver and winner ("none" when the field is absent)
getGameResult(b) ==
    IF catWinVerification(b) THEN [isOver |-> TRUE, winner |-> Cat]
    ELSE IF catcherWinVerification(b) THEN [isOver |-> TRUE, winner |-> Catcher]
    ELSE [isOver |-> FALSE, winner |-> "none"]

\* a list of cat moves that is not filtered by catCanMoveToPosition
getValidMovePositions_Unfiltered(b) ==
    IF b.turn = Cat
    THEN Neighbors(b.catPosition)
    ELSE LET catIndex == positionToIndex(b, b.catPosition)
             open == SelectSeq([k \in 1..Len(b.board) |-> k - 1],
                               LAMBDA i : b.board[i + 1] = "." /\ i /= catIndex)
             positions == [k \in 1..Len(open) |-> indexToPosition(b, open[k])]
         IN  SelectSeq(positions, LAMBDA pos : catcherCanMoveToPosition(b, pos))

\* getValidMovePositions(): the array moves
getValidMovePositions(b) ==
    IF b.turn = Cat
    THEN SelectSeq(Neighbors(b.catPosition), LAMBDA neighbor : catCanMoveToPosition(b, neighbor))
    ELSE LET catIndex == positionToIndex(b, b.catPosition)
             open == SelectSeq([k \in 1..Len(b.board) |-> k - 1],
                               LAMBDA i : b.board[i + 1] = "." /\ i /= catIndex)
             positions == [k \in 1..Len(open) |-> indexToPosition(b, open[k])]
         IN  SelectSeq(positions, LAMBDA pos : catcherCanMoveToPosition(b, pos))

-----------------------------------------------------------------------------
(* src/generateReport.ts: the agent's output and parseMoveAndTimeFromOutput *)

\* One line of the agent's stdout, by what the parser can see of it:
\*   "move":  matches /^(-?\d+),(-?\d+)$/, the numbers x and y
\*   "num":   a number x that is no move line
\*   "text":  anything else that is not blank (parseFloat gives NaN)
\*   "blank": only white space
Line(kind, x, y) == [kind |-> kind, x |-> x, y |-> y]
MoveLine(p) == Line("move", p.x, p.y)
NumLine(v) == Line("num", v, 0)
TextLine == Line("text", 0, 0)
BlankLine == Line("blank", 0, 0)

\* lines.filter(line => line.trim())
RECURSIVE NonEmptyLines(_)
NonEmptyLines(lines) ==
    IF lines = <<>> THEN <<>>
    ELSE IF Head(lines).kind = "blank" THEN NonEmptyLines(Tail(lines))
    ELSE <<Head(lines)>> \o NonEmptyLines(Tail(lines))

Reverse(s) == [i \in 1..Len(s) |-> s[Len(s) + 1 - i]]

\* parseFloat(line) is NaN
ParseFloatIsNaN(line) == line.kind \notin {"move", "num"}

\* [ok, move, processingTime]; ok = FALSE stands for the thrown Error
parseMoveAndTimeFromOutput(output) ==
    LET nonEmptyLines == Reverse(NonEmptyLines(output))
        failed == [ok |-> FALSE, move |-> Position(0, 0), processingTime |-> 0]
    IN  IF Len(nonEmptyLines) = 0 THEN failed
        ELSE IF Len(nonEmptyLines) < 2 THEN failed
        ELSE IF nonEmptyLines[1].kind /= "move" THEN failed
        ELSE IF ParseFloatIsNaN(nonEmptyLines[2]) THEN failed
        ELSE [ok |-> TRUE,
              move |-> Position(nonEmptyLines[1].x, nonEmptyLines[1].y),
              processingTime |-> nonEmptyLines[2].x]

-----------------------------------------------------------------------------
(* src/generateReport.ts: requestMove *)

\* const timeout = 2000
timeout == 2000

NoError == "none"
TimeoutExceeded == "Timeout exceeded"
CommandFailed == "Command failed"
ParseError == "Parse error"
ProcessError == "Process error"
InvalidMove == "Invalid move"

\* a MoveResult; hasMove = FALSE stands for move: null
MoveResult(hasMove, p, time, error) ==
    [hasMove |-> hasMove, move |-> p, time |-> time, error |-> error]

TimeoutResult == MoveResult(FALSE, Position(0, 0), timeout, TimeoutExceeded)

\* What exec hands to its callback: error (non-null), error.signal, whether
\* error.message contains 'timeout', stdout, and Date.now() - startTime there.
ExecOutcome(error, signal, msgTimeout, stdout, executionTime) ==
    [error |-> error, signal |-> signal, msgTimeout |-> msgTimeout,
     stdout |-> stdout, executionTime |-> executionTime]

\* an exec callback that does not compare executionTime with the timeout
ExecCallbackResult_NoTimeCheck(o) ==
    IF o.error
    THEN IF o.signal = "SIGTERM" \/ o.signal = "SIGKILL" \/ o.msgTimeout
         THEN TimeoutResult
         ELSE MoveResult(FALSE, Position(0, 0), o.executionTime, CommandFailed)
    ELSE LET result == parseMoveAndTimeFromOutput(o.stdout)
         IN  IF ~result.ok
             THEN MoveResult(FALSE, Position(0, 0), o.executionTime, ParseError)
             ELSE MoveResult(TRUE, result.move, result.processingTime, NoError)

\* the MoveResult the exec callback passes to safeResolve
ExecCallbackResult(o) ==
    IF o.error
    THEN IF o.signal = "SIGTERM" \/ o.signal = "SIGKILL" \/ o.msgTimeout
         THEN TimeoutResult
         ELSE MoveResult(FALSE, Position(0, 0), o.executionTime, CommandFailed)
    ELSE LET result == parseMoveAndTimeFromOutput(o.stdout)
         IN  IF ~result.ok
             THEN MoveResult(FALSE, Position(0, 0), o.executionTime, ParseError)
             ELSE IF o.executionTime >= timeout THEN TimeoutResult
             ELSE MoveResult(TRUE, result.move, result.processingTime, NoError)

\* The closure of one requestMove call and the state of its child:
\*   resolved, timeoutHandle   the closure's variables (handle set = TRUE)
\*   child                     "running", "exited" (it ended before any kill reached
\*                             it) or "killed" (a SIGKILL ended it)
\*   killed, killedBy          child.killed, and who sent the SIGKILL: "exec" (the
\*                             timeout option of exec), "timer" (the setTimeout
\*                             callback) or "none"
\*   cbDone, errDone           the exec callback / the 'error' listener has run
\*   timerFired                "no", or when the setTimeout callback ran:
\*                             "beforeExit" or "afterExit" of the child
\*   cbError, cbTime, cbOutput what the exec callback saw: error non-null, its
\*                             executionTime, and stdout ("parsed", "unparsable",
\*                             "empty" when it has no non-blank line, "none" before
\*                             the callback and with an error)
\*   resolveCalls, result      calls of resolve(), and the value the promise took
NoRequest ==
    [id |-> 0, resolved |-> TRUE, timeoutHandle |-> FALSE, child |-> "exited",
     killed |-> FALSE, killedBy |-> "none", cbDone |-> TRUE, errDone |-> TRUE,
     timerFired |-> "no",
     cbError |-> FALSE, cbTime |-> 0, cbOutput |-> "none",
     resolveCalls |-> 0, result |-> TimeoutResult]

NewRequest(id) ==
    [id |-> id, resolved |-> FALSE, timeoutHandle |-> TRUE, child |-> "running",
     killed |-> FALSE, killedBy |-> "none", cbDone |-> FALSE, errDone |-> FALSE,
     timerFired |-> "no",
     cbError |-> FALSE, cbTime |-> 0, cbOutput |-> "none",
     resolveCalls |-> 0, result |-> TimeoutResult]

\* a cleanup that leaves the timer set
cleanup_KeepTimer(r) == r

\* cleanup(): the closure after it
cleanup(r) == [r EXCEPT !.timeoutHandle = FALSE]

\* a safeResolve without the resolved flag
safeResolveFires_Always(r) == TRUE

\* safeResolve(result): does it call resolve()?
safeResolveFires(r) == ~r.resolved

\* safeResolve(result): the closure after it
safeResolve(r, result) ==
    IF safeResolveFires(r)
    THEN [cleanup(r) EXCEPT !.resolved = TRUE,
                            !.resolveCalls = r.resolveCalls + 1,
                            !.result = IF r.resolveCalls = 0 THEN result ELSE r.result]
    ELSE r

\* the exec callback: the closure after it has run with outcome o
execCallback(r, o) ==
    safeResolve([r EXCEPT !.cbDone = TRUE,
                          !.cbError = o.error,
                          !.cbTime = o.executionTime,
                          !.cbOutput = IF o.error THEN "none"
                                       ELSE IF parseMoveAndTimeFromOutput(o.stdout).ok
                                       THEN "parsed"
                                       ELSE IF NonEmptyLines(o.stdout) = <<>>
                                       THEN "empty" ELSE "unparsable"],
                ExecCallbackResult(o))

\* the timer callback's condition (child is always set)
TimerKills(r) == ~r.resolved /\ ~r.killed

-----------------------------------------------------------------------------
(* src/generateReport.ts: calculateTimePenalty and runMatch *)

\* largest cube root the model's printed times need
MaxCbrt == 2

\* Math.cbrt on the exact cubes -MaxCbrt^3 .. MaxCbrt^3
Cbrt(n) == CHOOSE k \in -MaxCbrt..MaxCbrt : k * k * k = n

\* calculateTimePenalty, in units of 1/5000 (the printed times of the model
\* are whole milliseconds whose cube root is an integer)
calculateTimePenalty(timeMicroseconds) == Cbrt(timeMicroseconds \div 1000)

\* new MatchReport() with cat, catcher and initialState filled in
NewReport(cat, catcher, layout, turn) ==
    [moves |-> <<>>, cat |-> cat, catcher |-> catcher,
     catMoveScore |-> 0, catcherMoveScore |-> 0,
     catTimeScore |-> 0, catcherTimeScore |-> 0,
     initialState |-> [board |-> layout, catPosition |-> Position(0, 0), turn |-> turn]]

\* a MoveReport whose move field is never stored
MoveReport_DefaultMove(username, turn, time, hasMove, p, error) ==
    [username |-> username, turn |-> turn, time |-> time,
     move |-> Position(0, 0), error |-> error]

\* new MoveReport(): move is new Position() until a move is stored
MoveReport(username, turn, time, hasMove, p, error) ==
    [username |-> username, turn |-> turn, time |-> time,
     move |-> IF hasMove THEN p ELSE Position(0, 0), error |-> error]

\* a move cap that lets one more move through
MaxMoves_PlusOne(b) == b.side * b.side + 1

\* const maxMoves = board.side * board.side
MaxMoves(b) == b.side * b.side

\* "The other player wins": the report after the failing side's score split
OtherPlayerWins(b, mc, rep) ==
    IF b.turn = Cat
    THEN [rep EXCEPT !.catcherMoveScore = MaxMoves(b) - mc, !.catMoveScore = mc]
    ELSE [rep EXCEPT !.catMoveScore = MaxMoves(b) - mc, !.catcherMoveScore = mc]

\* a penalty that is billed to the side that moves next
AccrueTimePenalty_Opponent(b, rep, time) ==
    IF b.turn = Cat
    THEN [rep EXCEPT !.catcherTimeScore = rep.catcherTimeScore + calculateTimePenalty(time)]
    ELSE [rep EXCEPT !.catTimeScore = rep.catTimeScore + calculateTimePenalty(time)]

\* the time penalty is added to the side to move
AccrueTimePenalty(b, rep, time) ==
    IF b.turn = Cat
    THEN [rep EXCEPT !.catTimeScore = rep.catTimeScore + calculateTimePenalty(time)]
    ELSE [rep EXCEPT !.catcherTimeScore = rep.catcherTimeScore + calculateTimePenalty(time)]

\* a log that takes the newest entry at its front
PushMove_Front(rep, moveReport) == [rep EXCEPT !.moves = <<moveReport>> \o rep.moves]

\* report.moves.push(moveReport)
PushMove(rep, moveReport) == [rep EXCEPT !.moves = Append(rep.moves, moveReport)]

\* One pass of the loop body after the await: the values of board, moveCount and
\* report after it, whether the loop was left by break, and whether board.move()
\* was called.
HandleResult(b, mc, rep, moveResult) ==
    LET currentUser == IF b.turn = Cat THEN rep.cat ELSE rep.catcher
        moveReport(error) ==
            MoveReport(currentUser, b.turn, moveResult.time,
                       moveResult.hasMove, moveResult.move, error)
    IN  IF moveResult.error /= NoError \/ ~moveResult.hasMove
        THEN [board |-> b, moveCount |-> mc,
              report |-> OtherPlayerWins(b, mc,
                  PushMove(rep, moveReport(IF moveResult.error /= NoError
                                           THEN moveResult.error ELSE InvalidMove))),
              broke |-> TRUE, moveCalled |-> FALSE]
        ELSE LET timed == AccrueTimePenalty(b, rep, moveResult.time)
                 moved == move(b, moveResult.move)
             IN  IF moved.threw
                 THEN [board |-> moved.board, moveCount |-> mc,
                       report |-> OtherPlayerWins(b, mc,
                                      PushMove(timed, moveReport(InvalidMove))),
                       broke |-> TRUE, moveCalled |-> TRUE]
                 ELSE [board |-> moved.board, moveCount |-> mc + 1,
                       report |-> PushMove(timed, moveReport(NoError)),
                       broke |-> FALSE, moveCalled |-> TRUE]

\* a loop head that does not look at the game result
LoopRequests_NoResultCheck(b, mc) == mc < MaxMoves(b)

\* the head of the while loop: is another move requested?
LoopRequests(b, mc) == mc < MaxMoves(b) /\ ~getGameResult(b).isOver

\* a final scoring that hands the two shares to the wrong sides
FinalScoring_Swapped(b, mc, rep) ==
    LET finalResult == getGameResult(b)
    IN  IF finalResult.isOver /\ rep.catMoveScore = 0 /\ rep.catcherMoveScore = 0
        THEN IF finalResult.winner = Cat
             THEN [rep EXCEPT !.catcherMoveScore = MaxMoves(b) - mc, !.catMoveScore = mc]
             ELSE [rep EXCEPT !.catMoveScore = MaxMoves(b) - mc, !.catcherMoveScore = mc]
        ELSE rep

\* "Final scoring if game ended normally"
FinalScoring(b, mc, rep) ==
    LET finalResult == getGameResult(b)
    IN  IF finalResult.isOver /\ rep.catMoveScore = 0 /\ rep.catcherMoveScore = 0
        THEN IF finalResult.winner = Cat
             THEN [rep EXCEPT !.catMoveScore = MaxMoves(b) - mc, !.catcherMoveScore = mc]
             ELSE [rep EXCEPT !.catcherMoveScore = MaxMoves(b) - mc, !.catMoveScore = mc]
        ELSE rep

-----------------------------------------------------------------------------
(* The inputs of a match: the layout string and the two agent executables *)

\* a layout of side*side cells, empty exactly at the 0-based indices in empty
Layout(side, empty) == [i \in 1..(side * side) |-> IF (i - 1) \in empty THEN "." ELSE "#"]

\* 1x1: the cat starts on the edge
LayoutSingle == Layout(1, {0})
\* 5x5: the centre row is open from (-1,0) to the edge cell (2,0)
LayoutRow == Layout(5, {11, 12, 13, 14})
\* 5x5: the six neighbours of the centre are blocked
LayoutTrapped == Layout(5, {0, 12, 24})
\* 5x5: the rows y = -2, -1, 0 are empty, the rows y = 1, 2 are blocked
LayoutHalf == Layout(5, 0..14)
\* 2x2: no legal side
LayoutBadSide == Layout(2, 0..3)

\* The times are the processing times an agent may print (parseFloat takes any
\* number, negative ones and zero included).
\* An agent of style "free" may print any position in or just outside the board.
\* An agent of style "scripted" walks the cat east or west and blocks, as catcher,
\* the first empty cell in index order that the cat is not on.
Setups ==
    {[layout |-> LayoutSingle, style |-> "free", times |-> {1000}],
     [layout |-> LayoutRow, style |-> "free", times |-> {1000}],
     [layout |-> LayoutTrapped, style |-> "free", times |-> {1000}],
     [layout |-> LayoutBadSide, style |-> "free", times |-> {1000}],
     [layout |-> LayoutHalf, style |-> "scripted", times |-> {1000}],
     [layout |-> LayoutRow, style |-> "scripted", times |-> {-1000, 0}]}

Users == <<"u1", "u2">>

Min(S) == CHOOSE i \in S : \A j \in S : i <= j

FirstEmpty(b) ==
    LET open == {i \in 0..(Len(b.board) - 1) :
                    b.board[i + 1] = "." /\ i /= positionToIndex(b, b.catPosition)}
    IN  IF open = {} THEN b.catPosition ELSE indexToPosition(b, Min(open))

\* the positions the agent of the side to move may print
AgentPositions(b, style) ==
    IF style = "free"
    THEN {Position(x, y) : x \in -(SideOver2(b) + 1)..(SideOver2(b) + 1),
                           y \in -(SideOver2(b) + 1)..(SideOver2(b) + 1)}
    ELSE IF b.turn = Cat THEN {E(b.catPosition), W(b.catPosition)}
    ELSE {FirstEmpty(b)}

\* the times the agent of the side to move may print: the scripted catcher is
\* a slower program than the scripted cat
AgentTimes(b, s) ==
    IF s.style = "scripted" /\ b.turn = Catcher THEN {8000} ELSE s.times

\* what the agent may write to stdout
AgentOutputs(b, s) ==
    {<<TextLine, NumLine(t), MoveLine(p)>> :
        t \in AgentTimes(b, s), p \in AgentPositions(b, s.style)}
    \cup {<<NumLine(t), BlankLine, MoveLine(b.catPosition), BlankLine>> : t \in AgentTimes(b, s)}
    \cup {<<>>, <<BlankLine>>, <<MoveLine(b.catPosition)>>,
          <<TextLine, MoveLine(b.catPosition)>>, <<NumLine(0), TextLine>>}

\* Date.now() - startTime as a callback may read it
ElapsedTimes == {timeout - 1, timeout, timeout + 1}

\* what exec may hand to its callback
ExecOutcomes(b, s) ==
    {ExecOutcome(FALSE, "none", FALSE, out, e) : out \in AgentOutputs(b, s), e \in ElapsedTimes}
    \cup {ExecOutcome(TRUE, sig, FALSE, <<>>, e) :
             sig \in {"none", "SIGSEGV", "SIGTERM", "SIGKILL"}, e \in ElapsedTimes}
    \cup {ExecOutcome(TRUE, "none", TRUE, <<>>, e) : e \in ElapsedTimes}

\* the outcomes exec can hand over, given what happened to the child: both
\* timers run only when the timeout has elapsed, and a child ended by the SIGKILL
\* is reported with that signal
PossibleOutcomes(r, b, s) ==
    {o \in ExecOutcomes(b, s) :
        /\ (r.timerFired /= "no" \/ r.killed) => o.executionTime >= timeout
        /\ r.child = "killed" => (o.error /\ o.signal = "SIGKILL")}

-----------------------------------------------------------------------------
(* The state machine *)

\* no board.move() call yet
\* main() is not running
NoDriver == [pc |-> "none", matchReports |-> <<>>, highScores |-> <<>>]

NoMove == [called |-> FALSE, position |-> Position(0, 0), threw |-> FALSE]

MoveCall(p, threw) == [called |-> TRUE, position |-> p, threw |-> threw]

\* the fields of a Board object before the constructor has run
BlankBoard == [side |-> 0, turn |-> Cat, board |-> <<>>, catPosition |-> Position(0, 0)]

Init ==
    /\ setup \in Setups
    /\ pc = "start"
    /\ board = BlankBoard
    /\ moveCount = 0
    /\ report = NewReport("", "", <<>>, Cat)
    /\ req = NoRequest
    /\ timers = {}
    /\ requestsIssued = 0
    /\ moveCalls = 0
    /\ lastMove = NoMove
    /\ driver = NoDriver

\* runMatch from the loop head on: either the next requestMove call is made and
\* runMatch awaits it, or the loop is left and the report is returned.
\* tm is the set of pending timers when the loop head is reached.
\* a loop that starts the next two requests without awaiting the first
LoopOrReturn_NoAwait(b, mc, rep, broke, old, tm) ==
    /\ board' = b
    /\ moveCount' = mc
    /\ IF ~broke /\ LoopRequests(b, mc)
       THEN /\ pc' = "await"
            /\ report' = rep
            /\ requestsIssued' = requestsIssued + 2
            /\ req' = NewRequest(requestsIssued + 2)
            /\ timers' = tm \cup {requestsIssued + 1, requestsIssued + 2}
       ELSE /\ pc' = "done"
            /\ report' = FinalScoring(b, mc, rep)
            /\ requestsIssued' = requestsIssued
            /\ req' = old
            /\ timers' = tm

LoopOrReturn(b, mc, rep, broke, old, tm) ==
    /\ board' = b
    /\ moveCount' = mc
    /\ IF ~broke /\ LoopRequests(b, mc)
       THEN /\ pc' = "await"
            /\ report' = rep
            /\ requestsIssued' = requestsIssued + 1
            /\ req' = NewRequest(requestsIssued + 1)
            /\ timers' = tm \cup {requestsIssued + 1}
       ELSE /\ pc' = "done"
            /\ report' = FinalScoring(b, mc, rep)
            /\ requestsIssued' = requestsIssued
            /\ req' = old
            /\ timers' = tm

\* runMatch up to its first await
Start ==
    /\ pc = "start"
    /\ \E b \in {NewBoard(setup.layout, Position(0, 0))} :
           IF BoardThrows(setup.layout)
           THEN /\ pc' = "threw"
                /\ UNCHANGED <<board, moveCount, report, req, timers, requestsIssued>>
           ELSE LoopOrReturn(b, 0, NewReport(Users[1], Users[2], setup.layout, b.turn),
                             FALSE, NoRequest, timers)
    /\ UNCHANGED <<moveCalls, lastMove, setup, driver>>

\* the pending timers after a callback that left the closure as r: clearTimeout
\* has removed the request's timer when the handle was reset
Pending(r, tm) == IF r.timeoutHandle THEN tm ELSE tm \ {r.id}

\* A callback of the request has run and left the closure as r and the pending
\* timers as tm.  If it settled the promise (the first resolve() call), the
\* continuation of runMatch runs with the result.
AfterCallback(r, tm) ==
    IF req.resolveCalls = 0 /\ r.resolveCalls > 0 /\ pc = "await"
    THEN \E h \in {HandleResult(board, moveCount, report, r.result)} :
             /\ LoopOrReturn(h.board, h.moveCount, h.report, h.broke, r, Pending(r, tm))
             /\ moveCalls' = moveCalls + (IF h.moveCalled THEN 1 ELSE 0)
             /\ lastMove' = IF h.moveCalled
                            THEN MoveCall(r.result.move, move(board, r.result.move).threw)
                            ELSE lastMove
    ELSE /\ req' = r
         /\ timers' = Pending(r, tm)
         /\ UNCHANGED <<board, pc, moveCount, report, requestsIssued, moveCalls, lastMove>>

\* child.kill('SIGKILL'): the closure after it
kill(r, by) ==
    [r EXCEPT !.killed = TRUE, !.killedBy = by,
              !.child = IF r.child = "running" THEN "killed" ELSE r.child]

\* the agent process ends by itself (or by a signal from outside)
ChildExits ==
    /\ pc \in {"await", "done"}
    /\ req.child = "running"
    /\ req' = [req EXCEPT !.child = "exited"]
    /\ UNCHANGED <<board, pc, moveCount, report, timers, requestsIssued, moveCalls,
                   lastMove, setup, driver>>

\* the callback that exec calls when the child has ended
ExecCallback ==
    /\ pc \in {"await", "done"}
    /\ ~req.cbDone
    /\ req.child /= "running"
    /\ \E o \in PossibleOutcomes(req, board, setup) :
          \E r \in {execCallback(req, o)} : AfterCallback(r, timers)
    /\ UNCHANGED <<setup, driver>>

\* the timer of exec's timeout option kills the child with killSignal
ExecTimeoutKill ==
    /\ pc \in {"await", "done"}
    /\ ~req.cbDone
    /\ ~req.killed
    /\ req' = kill(req, "exec")
    /\ UNCHANGED <<board, pc, moveCount, report, timers, requestsIssued, moveCalls,
                   lastMove, setup, driver>>

\* a timer callback that reports the timeout and leaves the child running
TimerCallback_NoKill(r) ==
    IF TimerKills(r) THEN safeResolve(r, TimeoutResult) ELSE r

\* the closure after the setTimeout callback of requestMove
TimerCallback(r) ==
    IF TimerKills(r)
    THEN safeResolve(kill(r, "timer"), TimeoutResult)
    ELSE r

\* a setTimeout timer of requestMove fires: the timer of the latest request, or
\* one left pending by an earlier request, whose closure is resolved
TimerFires ==
    /\ pc \in {"await", "done"}
    /\ \E id \in timers :
          IF id = req.id
          THEN \E r \in {TimerCallback([req EXCEPT !.timerFired =
                              IF req.child = "exited" THEN "afterExit" ELSE "beforeExit"])} :
                   AfterCallback(r, timers \ {id})
          ELSE /\ timers' = timers \ {id}
               /\ UNCHANGED <<board, pc, moveCount, report, req, requestsIssued, moveCalls,
                              lastMove>>
    /\ UNCHANGED <<setup, driver>>

\* child.on('error', ...): the child could not be spawned.  (The other cause of
\* the event, a kill that fails, does not arise for a child of this process.)
ChildError ==
    /\ pc \in {"await", "done"}
    /\ ~req.errDone
    /\ ~req.killed
    /\ \E e \in ElapsedTimes :
          /\ AfterCallback(safeResolve([req EXCEPT !.errDone = TRUE],
                                       MoveResult(FALSE, Position(0, 0), e, ProcessError)),
                           timers)
    /\ UNCHANGED <<setup, driver>>

Next == Start \/ ChildExits \/ ExecCallback \/ ExecTimeoutKill \/ TimerFires \/ ChildError

Spec == Init /\ [][Next]_vars

\* The event loop runs what is due: runMatch starts, a timer that was set fires,
\* and exec calls its callback once the child has ended.
SpecFair ==
    /\ Init /\ [][Next]_vars
    /\ WF_vars(Start)
    /\ WF_vars(TimerFires)
    /\ WF_vars(ExecCallback)

-----------------------------------------------------------------------------
(* A Board object driven directly: any 5x5 board whose cat is in bounds and  *)
(* whose blocked cells are none, five or six of the cat's neighbours; any    *)
(* position in or just outside the board is passed to move().                *)

\* number of move() calls made on such a board
MaxBoardMoves == 1

\* the smallest side 4*i+1 that has cells off the edge (i = 1)
BoardSide == 4 * 1 + 1

InBounds(side) ==
    {Position(x, y) : x \in -(side \div 2)..(side \div 2), y \in -(side \div 2)..(side \div 2)}

\* the positions handed to validateMove and move: in and just outside the board
Probes(b) ==
    {Position(x, y) : x \in -(SideOver2(b) + 1)..(SideOver2(b) + 1),
                      y \in -(SideOver2(b) + 1)..(SideOver2(b) + 1)}

\* the board with the cells of the set blocked and every other cell empty
BoardWith(side, catPosition, turn, blocked) ==
    LET b == NewBoard(Layout(side, 0..(side * side - 1)), catPosition)
    IN  [b EXCEPT !.turn = turn,
                  !.board = [i \in 1..(side * side) |->
                               IF \E p \in blocked :
                                     isValidPosition(b, p) /\ positionToIndex(b, p) + 1 = i
                               THEN "#" ELSE "."]]

NeighborSet(p) == {Neighbors(p)[i] : i \in 1..6}

BoardStates ==
    UNION {{BoardWith(BoardSide, c, t, blocked) :
               t \in {Cat, Catcher},
               blocked \in {S \in SUBSET NeighborSet(c) : Cardinality(S) \in {0, 5, 6}}} :
           c \in InBounds(BoardSide)}

InitBoard ==
    /\ board \in BoardStates
    /\ pc = "board"
    /\ moveCount = 0
    /\ report = NewReport(Users[1], Users[2], board.board, board.turn)
    /\ req = NoRequest
    /\ timers = {}
    /\ requestsIssued = 0
    /\ moveCalls = 0
    /\ lastMove = NoMove
    /\ setup = [layout |-> board.board, style |-> "free", times |-> {1000}]
    /\ driver = NoDriver

\* board.move(p)
BoardMove ==
    /\ pc = "board"
    /\ moveCalls < MaxBoardMoves
    /\ \E p \in Probes(board) :
          /\ board' = move(board, p).board
          /\ lastMove' = MoveCall(p, move(board, p).threw)
    /\ moveCalls' = moveCalls + 1
    /\ UNCHANGED <<pc, moveCount, report, req, timers, requestsIssued, setup, driver>>

NextBoard == BoardMove

SpecBoard == InitBoard /\ [][NextBoard]_vars

-----------------------------------------------------------------------------
(* The Board constructor applied to layout strings of every length up to     *)
(* MaxLayoutLen, with and without white space and a 'C' in them.              *)

\* longest layout, counted in cells
MaxLayoutLen == 50

\* n cells ('#' first, then '.', a 'C' in the middle when marked), after
\* `before` blanks, and with `after` blanks at the end
CtorLayout(n, before, after, marked) ==
    [i \in 1..(before + n + after) |->
        IF i <= before \/ i > before + n THEN " "
        ELSE IF marked /\ i = before + (n + 1) \div 2 THEN "C"
        ELSE IF i = before + 1 THEN "#" ELSE "."]

CtorLayouts ==
    {CtorLayout(n, before, after, marked) :
        n \in 0..MaxLayoutLen, before \in 0..1, after \in 0..1, marked \in BOOLEAN}

InitCtor ==
    /\ setup \in {[layout |-> l, style |-> "free", times |-> {1000}] : l \in CtorLayouts}
    /\ pc = "new"
    /\ board = BlankBoard
    /\ moveCount = 0
    /\ report = NewReport("", "", <<>>, Cat)
    /\ req = NoRequest
    /\ timers = {}
    /\ requestsIssued = 0
    /\ moveCalls = 0
    /\ lastMove = NoMove
    /\ driver = NoDriver

\* new Board(layout, new Position(0, 0), ...)
Construct ==
    /\ pc = "new"
    /\ IF BoardThrows(setup.layout)
       THEN pc' = "threw" /\ board' = board
       ELSE pc' = "built" /\ board' = NewBoard(setup.layout, Position(0, 0))
    /\ UNCHANGED <<moveCount, report, req, timers, requestsIssued, moveCalls, lastMove,
                   setup, driver>>

NextCtor == Construct

SpecCtor == InitCtor /\ [][NextCtor]_vars

-----------------------------------------------------------------------------
(* src/generateReport.ts: calculateUserScores *)

\* JavaScript values of a field that may be absent: undefined, NaN or a number
JsUndefined == [type |-> "undefined", n |-> 0]
JsNaN == [type |-> "NaN", n |-> 0]
JsNum(n) == [type |-> "number", n |-> n]

\* v += 1
JsPlusOne(v) == IF v.type = "number" THEN JsNum(v.n + 1) ELSE JsNaN

\* match.initialState.board ? match.initialState.board.length : 441
DefaultMaxScore == 441

\* Scores are kept as whole numbers of a unit.  A normalised move score is
\* counted in 1/ScoreUnit, where every maxScore of the model divides ScoreUnit;
\* a time score in 1/5000 (calculateTimePenalty); catScore, catcherScore and
\* totalScore in 1/(5000 * ScoreUnit).
ScoreUnit == 5 * 5 * DefaultMaxScore

\* match.catMoveScore / maxScore, in 1/ScoreUnit
Normalize(raw, maxScore) == raw * (ScoreUnit \div maxScore)

\* moveScore - timeScore, in 1/(5000 * ScoreUnit)
Minus(moveScore, timeScore) == moveScore * 5000 - timeScore * ScoreUnit

\* new UserScore(username): the class declares no catWins and no catcherWins
UserScore(username) ==
    [username |-> username, catMoveScore |-> 0, catcherMoveScore |-> 0,
     catTimeScore |-> 0, catcherTimeScore |-> 0,
     catScore |-> 0, catcherScore |-> 0, totalScore |-> 0,
     catWins |-> JsUndefined, catcherWins |-> JsUndefined]

\* userScores.get(username): the index of the entry in insertion order
MapGet(userScores, username) ==
    CHOOSE i \in 1..Len(userScores) : userScores[i].username = username

\* a loop body that adds the cat's time penalty to the catcher's user
Accumulate_TimeToCatcher(userScores, match) ==
    LET cat == MapGet(userScores, match.cat)
        catcher == MapGet(userScores, match.catcher)
        maxScore == IF Len(match.initialState.board) /= 0
                    THEN Len(match.initialState.board) ELSE DefaultMaxScore
        s1 == [userScores EXCEPT
                  ![cat].catMoveScore = @ + Normalize(match.catMoveScore, maxScore),
                  ![catcher].catTimeScore = @ + match.catTimeScore]
    IN  [s1 EXCEPT
            ![catcher].catcherMoveScore = @ + Normalize(match.catcherMoveScore, maxScore),
            ![catcher].catcherTimeScore = @ + match.catcherTimeScore]

\* one pass of "for (const match of matchReports)"
Accumulate(userScores, match) ==
    LET cat == MapGet(userScores, match.cat)
        catcher == MapGet(userScores, match.catcher)
        maxScore == IF Len(match.initialState.board) /= 0
                    THEN Len(match.initialState.board) ELSE DefaultMaxScore
        s1 == [userScores EXCEPT
                  ![cat].catMoveScore = @ + Normalize(match.catMoveScore, maxScore),
                  ![cat].catTimeScore = @ + match.catTimeScore]
        s2 == [s1 EXCEPT
                  ![catcher].catcherMoveScore = @ + Normalize(match.catcherMoveScore, maxScore),
                  ![catcher].catcherTimeScore = @ + match.catcherTimeScore]
    IN  IF match.catMoveScore > match.catcherMoveScore
        THEN [s2 EXCEPT ![cat].catWins = JsPlusOne(@)]
        ELSE IF match.catcherMoveScore > match.catMoveScore
        THEN [s2 EXCEPT ![catcher].catcherWins = JsPlusOne(@)]
        ELSE s2

RECURSIVE AccumulateAll(_, _)
AccumulateAll(userScores, matchReports) ==
    IF matchReports = <<>> THEN userScores
    ELSE AccumulateAll(Accumulate(userScores, Head(matchReports)), Tail(matchReports))

\* "Calculate final scores"
FinalScores(userScore) ==
    LET catScore == Minus(userScore.catMoveScore, userScore.catTimeScore)
        catcherScore == Minus(userScore.catcherMoveScore, userScore.catcherTimeScore)
    IN  [userScore EXCEPT !.catScore = catScore, !.catcherScore = catcherScore,
                          !.totalScore = catScore + catcherScore]

\* a comparator that ranks the lowest total first
compare_Ascending(a, b) == a.totalScore - b.totalScore

\* the comparator (a, b) => b.totalScore - a.totalScore
compare(a, b) == b.totalScore - a.totalScore

\* x put into a sorted array, behind the entries that do not compare above it
RECURSIVE Insert(_, _)
Insert(x, sorted) ==
    IF sorted = <<>> THEN <<x>>
    ELSE IF compare(Head(sorted), x) <= 0 THEN <<Head(sorted)>> \o Insert(x, Tail(sorted))
    ELSE <<x>> \o sorted

\* Array.prototype.sort with that comparator: a stable sort
RECURSIVE SortFrom(_, _)
SortFrom(sorted, rest) ==
    IF rest = <<>> THEN sorted ELSE SortFrom(Insert(Head(rest), sorted), Tail(rest))

calculateUserScores(userList, matchReports) ==
    LET initial == [i \in 1..Len(userList) |-> UserScore(userList[i].username)]
        summed == AccumulateAll(initial, matchReports)
        final == [i \in 1..Len(summed) |-> FinalScores(summed[i])]
    IN  SortFrom(<<>>, final)

-----------------------------------------------------------------------------
(* The report codec: compressBoard (src/generateReport.ts) and               *)
(* decompressBoard (src/src/components/CompetitionReport.tsx)                *)

Digits == <<"0", "1", "2", "3", "4", "5", "6", "7", "8", "9">>

\* the decimal string of a count, as string concatenation writes a number
RECURSIVE NumberToString(_)
NumberToString(n) ==
    IF n < 10 THEN <<Digits[n + 1]>>
    ELSE NumberToString(n \div 10) \o <<Digits[(n % 10) + 1]>>

\* a group written without its count
Group_NoCount(count, currentChar) == <<currentChar>>

\* count > 1 ? count + currentChar : currentChar
Group(count, currentChar) ==
    IF count > 1 THEN NumberToString(count) \o <<currentChar>> ELSE <<currentChar>>

\* the for loop of compressBoard from index i (1-based), and its last group
RECURSIVE CompressFrom(_, _, _, _, _)
CompressFrom(b, i, currentChar, count, compressed) ==
    IF i > Len(b) THEN compressed \o Group(count, currentChar)
    ELSE IF b[i] = currentChar
    THEN CompressFrom(b, i + 1, currentChar, count + 1, compressed)
    ELSE CompressFrom(b, i + 1, b[i], 1, compressed \o Group(count, currentChar))

compressBoard(b) ==
    IF b = <<>> THEN <<>> ELSE CompressFrom(b, 2, b[1], 1, <<>>)

\* /\d/.test(c)
IsDigit(c) == \E d \in 1..10 : Digits[d] = c

DigitValue(c) == (CHOOSE d \in 1..10 : Digits[d] = c) - 1

\* parseInt of a string of digits
RECURSIVE parseInt(_)
parseInt(digits) ==
    IF digits = <<>> THEN 0
    ELSE parseInt(SubSeq(digits, 1, Len(digits) - 1)) * 10 + DigitValue(digits[Len(digits)])

\* the inner while loop: the first index from i on that holds no digit
RECURSIVE SkipDigits(_, _)
SkipDigits(compressed, i) ==
    IF i <= Len(compressed) /\ IsDigit(compressed[i]) THEN SkipDigits(compressed, i + 1) ELSE i

\* char.repeat(repeatCount)
Repeat(char, repeatCount) == [k \in 1..repeatCount |-> char]

\* the outer while loop of decompressBoard from index i (1-based)
RECURSIVE DecompressFrom(_, _, _)
DecompressFrom(compressed, i, decompressed) ==
    IF i > Len(compressed) THEN decompressed
    ELSE LET j == SkipDigits(compressed, i)
             count == SubSeq(compressed, i, j - 1)
             repeatCount == IF count /= <<>> THEN parseInt(count) ELSE 1
         IN  IF j <= Len(compressed)
             THEN DecompressFrom(compressed, j + 1,
                                 decompressed \o Repeat(compressed[j], repeatCount))
             ELSE decompressed

decompressBoard(compressed) ==
    IF compressed = <<>> THEN <<>> ELSE DecompressFrom(compressed, 1, <<>>)

\* Array.from(new Set(list)): the first occurrences, in order
Dedupe(list) ==
    LET first == {i \in 1..Len(list) : \A j \in 1..(i - 1) : list[j] /= list[i]}
    IN  [k \in 1..Cardinality(first) |->
            list[CHOOSE i \in first : Cardinality({j \in first : j <= i}) = k]]

\* matches.flatMap(match => match.moves.map(move => move.username))
RECURSIVE MoverNames(_)
MoverNames(matches) ==
    IF matches = <<>> THEN <<>>
    ELSE [k \in 1..Len(Head(matches).moves) |-> Head(matches).moves[k].username]
         \o MoverNames(Tail(matches))

allUsernames(matches) ==
    Dedupe([k \in 1..Len(matches) |-> matches[k].cat]
           \o [k \in 1..Len(matches) |-> matches[k].catcher]
           \o MoverNames(matches))

\* userMap.get(username): the 0-based index, undefined for a name not in the map
userMapGet(names, username) ==
    IF \E i \in 1..Len(names) : names[i] = username
    THEN JsNum((CHOOSE i \in 1..Len(names) : names[i] = username) - 1)
    ELSE JsUndefined

\* One move of the compact report.  `move.move && {mv: ...}` adds mv when the
\* MoveReport has a move object (present = FALSE stands for a compact move
\* without mv); e is left out (NoError) when move.error is absent.
optimizeMove(names, m) ==
    [u |-> userMapGet(names, m.username),
     t |-> IF m.turn = Cat THEN 0 ELSE 1,
     tm |-> m.time,
     mv |-> IF "move" \in DOMAIN m
            THEN [present |-> TRUE, x |-> m.move.x, y |-> m.move.y]
            ELSE [present |-> FALSE, x |-> 0, y |-> 0],
     e |-> m.error]

optimizeMatch(names, match) ==
    [m |-> [k \in 1..Len(match.moves) |-> optimizeMove(names, match.moves[k])],
     c |-> userMapGet(names, match.cat),
     ch |-> userMapGet(names, match.catcher),
     cms |-> match.catMoveScore, chs |-> match.catcherMoveScore,
     cts |-> match.catTimeScore, chts |-> match.catcherTimeScore,
     init |-> [b |-> compressBoard(match.initialState.board),
               cp |-> match.initialState.catPosition,
               t |-> IF match.initialState.turn = Cat THEN 0 ELSE 1]]

optimizeScore(names, score) ==
    [u |-> userMapGet(names, score.username),
     cms |-> score.catMoveScore, chs |-> score.catcherMoveScore,
     cts |-> score.catTimeScore, chts |-> score.catcherTimeScore,
     cs |-> score.catScore, chs2 |-> score.catcherScore, ts |-> score.totalScore,
     cw |-> score.catWins, chw |-> score.catcherWins]

optimizeCompetitionReport(matches, highScores) ==
    LET names == allUsernames(matches)
    IN  [users |-> names,
         matches |-> [k \in 1..Len(matches) |-> optimizeMatch(names, matches[k])],
         highScores |-> [k \in 1..Len(highScores) |-> optimizeScore(names, highScores[k])]]

\* users[index] when the index is undefined or past the end of the array
UndefinedName == "undefined"

\* users[move.u]
userAt(names, u) ==
    IF u.type = "number" /\ u.n + 1 \in 1..Len(names) THEN names[u.n + 1] ELSE UndefinedName

\* reading move.mv.x throws a TypeError when mv was left out
deoptimizeThrows(optimizedData) ==
    \E k \in 1..Len(optimizedData.matches) :
        \E i \in 1..Len(optimizedData.matches[k].m) :
            ~optimizedData.matches[k].m[i].mv.present

deoptimizeMove(names, om) ==
    [username |-> userAt(names, om.u),
     turn |-> IF om.t = 0 THEN Cat ELSE Catcher,
     time |-> om.tm,
     move |-> Position(om.mv.x, om.mv.y),
     error |-> om.e]

deoptimizeMatch(names, match) ==
    [moves |-> [k \in 1..Len(match.m) |-> deoptimizeMove(names, match.m[k])],
     cat |-> userAt(names, match.c),
     catcher |-> userAt(names, match.ch),
     catMoveScore |-> match.cms, catcherMoveScore |-> match.chs,
     catTimeScore |-> match.cts, catcherTimeScore |-> match.chts,
     initialState |-> [board |-> decompressBoard(match.init.b),
                       catPosition |-> Position(match.init.cp.x, match.init.cp.y),
                       turn |-> IF match.init.t = 0 THEN Cat ELSE Catcher]]

\* the decoded entry has no catWins and no catcherWins
deoptimizeScore(names, score) ==
    [username |-> userAt(names, score.u),
     catMoveScore |-> score.cms, catcherMoveScore |-> score.chs,
     catTimeScore |-> score.cts, catcherTimeScore |-> score.chts,
     catScore |-> score.cs, catcherScore |-> score.chs2, totalScore |-> score.ts,
     catWins |-> JsUndefined, catcherWins |-> JsUndefined]

\* const result = { matches, highScores }
deoptimizeResult(optimizedData) ==
    [matches |-> [k \in 1..Len(optimizedData.matches) |->
                     deoptimizeMatch(optimizedData.users, optimizedData.matches[k])],
     highScores |-> [k \in 1..Len(optimizedData.highScores) |->
                        deoptimizeScore(optimizedData.users, optimizedData.highScores[k])]]

\* let cachedDecompressedReport = null (module level)
NoCache == [set |-> FALSE, report |-> [matches |-> <<>>, highScores |-> <<>>]]

\* deoptimizeCompetitionReport: the cached result if there is one, else the
\* decoded report
deoptimizeCompetitionReport(cached, optimizedData) ==
    IF cached.set THEN cached.report ELSE deoptimizeResult(optimizedData)

\* cachedDecompressedReport after the call
CacheAfter(cached, optimizedData) ==
    IF cached.set THEN cached
    ELSE [set |-> TRUE, report |-> deoptimizeResult(optimizedData)]

-----------------------------------------------------------------------------
(* src/generateReport.ts: main.  A user's program is one of four strategies;  *)
(* runMatch is taken as the function of the two programs' answers that the    *)
(* loop of runMatch computes.                                                 *)

\* What a user's program answers to a request:
\*   "timeout": nothing in time
\*   "walker":  as cat, steps east from x = 0 and west otherwise; as catcher,
\*              blocks the first empty cell that the cat is not on
\*   "runner":  as cat, steps east; as catcher, blocks the cell east of the cat
\*   "wild":    always prints 0,0
Strategies == {"timeout", "walker", "runner", "wild"}

Answer(user, b) ==
    IF user.strategy = "timeout" THEN TimeoutResult
    ELSE IF user.strategy = "walker"
    THEN MoveResult(TRUE,
                    IF b.turn = Cat
                    THEN (IF b.catPosition.x = 0 THEN E(b.catPosition) ELSE W(b.catPosition))
                    ELSE FirstEmpty(b),
                    user.time, NoError)
    ELSE IF user.strategy = "runner"
    THEN MoveResult(TRUE, E(b.catPosition), user.time, NoError)
    ELSE MoveResult(TRUE, Position(0, 0), user.time, NoError)

\* the loop of runMatch and its final scoring, given the programs
RECURSIVE PlayMatch(_, _, _, _, _)
PlayMatch(b, mc, rep, cat, catcher) ==
    IF ~LoopRequests(b, mc) THEN FinalScoring(b, mc, rep)
    ELSE LET currentUser == IF b.turn = Cat THEN cat ELSE catcher
             h == HandleResult(b, mc, rep, Answer(currentUser, b))
         IN  IF h.broke THEN FinalScoring(h.board, h.moveCount, h.report)
             ELSE PlayMatch(h.board, h.moveCount, h.report, cat, catcher)

\* the report that runMatch(cat, catcher, initialState) returns when the
\* constructor does not throw
runMatch(cat, catcher, initialState) ==
    LET b == NewBoard(initialState, Position(0, 0))
    IN  PlayMatch(b, 0, NewReport(cat.username, catcher.username, initialState, b.turn),
                  cat, catcher)

\* largest number of users left after the filter on a successful build
MaxUsers == 3

Usernames == <<"u1", "u2", "u3", "u4">>

\* the users array: the second user's is a slower program
UserList(strategies) ==
    [i \in 1..Len(strategies) |->
        [username |-> Usernames[i], strategy |-> strategies[i],
         time |-> IF i = 2 THEN 8000 ELSE 1000]]

\* nested loops that also let a user play itself
Pairings_WithSelf(initialStates, userList) ==
    LET n == Len(userList)
    IN  [k \in 1..(Len(initialStates) * n * n) |->
            [initialState |-> initialStates[((k - 1) \div (n * n)) + 1],
             cat |-> userList[(((k - 1) \div n) % n) + 1],
             catcher |-> userList[((k - 1) % n) + 1]]]

\* the runMatch calls of the nested loops, in order: for each initial state, for
\* each cat, for each catcher, skipping cat = catcher
Pairings(initialStates, userList) ==
    LET n == Len(userList)
        all == [k \in 1..(Len(initialStates) * n * n) |->
                   [initialState |-> initialStates[((k - 1) \div (n * n)) + 1],
                    cat |-> userList[(((k - 1) \div n) % n) + 1],
                    catcher |-> userList[((k - 1) % n) + 1]]]
        Differ(m) == m.cat.username /= m.catcher.username
    IN  SelectSeq(all, Differ)

\* the lists of boards the competition is run on
InitialStateLists ==
    {<<LayoutRow>>, <<LayoutHalf>>, <<LayoutSingle, LayoutRow>>,
     <<LayoutBadSide>>, <<LayoutRow, LayoutBadSide>>}

InitMain ==
    /\ setup \in {[initialStates |-> l, users |-> UserList(st)] :
                     l \in InitialStateLists,
                     st \in UNION {[1..n -> Strategies] : n \in 0..MaxUsers}}
    /\ driver = [pc |-> "loop", matchReports |-> <<>>, highScores |-> <<>>,
                 optimizedReport |-> <<>>, loaded |-> <<>>,
                 cachedDecompressedReport |-> NoCache,
                 other |-> <<>>, reloaded |-> <<>>]
    /\ pc = "main"
    /\ board = BlankBoard
    /\ moveCount = 0
    /\ report = NewReport("", "", <<>>, Cat)
    /\ req = NoRequest
    /\ timers = {}
    /\ requestsIssued = 0
    /\ moveCalls = 0
    /\ lastMove = NoMove

Matches == Pairings(setup.initialStates, setup.users)

\* one "await runMatch(cat, catcher, initialState)" of main: the report is
\* pushed; a rejection is not caught in main, so it reaches main().catch, which
\* calls process.exit(1)
MainRunMatch ==
    /\ driver.pc = "loop"
    /\ Len(driver.matchReports) < Len(Matches)
    /\ LET m == Matches[Len(driver.matchReports) + 1]
       IN  IF BoardThrows(m.initialState)
           THEN driver' = [driver EXCEPT !.pc = "exit1"]
           ELSE driver' = [driver EXCEPT !.matchReports =
                              Append(@, runMatch(m.cat, m.catcher, m.initialState))]
    /\ UNCHANGED <<board, pc, moveCount, report, req, timers, requestsIssued, moveCalls,
                   lastMove, setup>>

\* after the loops: calculateUserScores, the CompetitionReport, writeFileSync
MainReport ==
    /\ driver.pc = "loop"
    /\ Len(driver.matchReports) = Len(Matches)
    /\ driver' = [driver EXCEPT
                     !.pc = "written",
                     !.highScores = calculateUserScores(setup.users, driver.matchReports),
                     !.optimizedReport =
                         optimizeCompetitionReport(driver.matchReports,
                             calculateUserScores(setup.users, driver.matchReports))]
    /\ UNCHANGED <<board, pc, moveCount, report, req, timers, requestsIssued, moveCalls,
                   lastMove, setup>>

\* the report page decodes the written report
LoadReport ==
    /\ driver.pc = "written"
    /\ IF ~driver.cachedDecompressedReport.set /\ deoptimizeThrows(driver.optimizedReport)
       THEN driver' = [driver EXCEPT !.pc = "loadFailed"]
       ELSE driver' = [driver EXCEPT
                          !.pc = "loaded",
                          !.loaded = deoptimizeCompetitionReport(
                                         driver.cachedDecompressedReport,
                                         driver.optimizedReport),
                          !.cachedDecompressedReport =
                              CacheAfter(driver.cachedDecompressedReport,
                                         driver.optimizedReport)]
    /\ UNCHANGED <<board, pc, moveCount, report, req, timers, requestsIssued, moveCalls,
                   lastMove, setup>>

\* a second call of deoptimizeCompetitionReport in the same process, for
\* another compact report: the report of no competition, or the report of the
\* first match alone
LoadOther ==
    /\ driver.pc = "loaded"
    /\ \E optimizedData \in
            {optimizeCompetitionReport(<<>>, <<>>)}
            \cup (IF driver.matchReports = <<>> THEN {}
                  ELSE {optimizeCompetitionReport(SubSeq(driver.matchReports, 1, 1),
                            calculateUserScores(setup.users,
                                                SubSeq(driver.matchReports, 1, 1)))}) :
          driver' = [driver EXCEPT
                        !.pc = "reloaded",
                        !.other = optimizedData,
                        !.reloaded = deoptimizeCompetitionReport(
                                         driver.cachedDecompressedReport, optimizedData),
                        !.cachedDecompressedReport =
                            CacheAfter(driver.cachedDecompressedReport, optimizedData)]
    /\ UNCHANGED <<board, pc, moveCount, report, req, timers, requestsIssued, moveCalls,
                   lastMove, setup>>

NextMain == MainRunMatch \/ MainReport \/ LoadReport \/ LoadOther

SpecMain == InitMain /\ [][NextMain]_vars

-----------------------------------------------------------------------------
(* The board codec applied to every short board string *)

\* longest board string that is put through the codec
MaxCodecLen == 11

\* every string over '.' and '#' of a length up to MaxCodecLen
CodecBoards == UNION {[1..n -> {".", "#"}] : n \in 0..MaxCodecLen}

InitCodec ==
    /\ setup \in {[board |-> b] : b \in CodecBoards}
    /\ driver = [pc |-> "board", compressed |-> <<>>, decompressed |-> <<>>]
    /\ pc = "codec"
    /\ board = BlankBoard
    /\ moveCount = 0
    /\ report = NewReport("", "", <<>>, Cat)
    /\ req = NoRequest
    /\ timers = {}
    /\ requestsIssued = 0
    /\ moveCalls = 0
    /\ lastMove = NoMove

\* the writer of the report compresses the board
Compress ==
    /\ pc = "codec"
    /\ driver.pc = "board"
    /\ driver' = [driver EXCEPT !.pc = "compressed", !.compressed = compressBoard(setup.board)]
    /\ UNCHANGED <<board, pc, moveCount, report, req, timers, requestsIssued, moveCalls,
                   lastMove, setup>>

\* the reader of the report decompresses it
Decompress ==
    /\ pc = "codec"
    /\ driver.pc = "compressed"
    /\ driver' = [driver EXCEPT !.pc = "decompressed",
                                !.decompressed = decompressBoard(driver.compressed)]
    /\ UNCHANGED <<board, pc, moveCount, report, req, timers, requestsIssued, moveCalls,
                   lastMove, setup>>

NextCodec == Compress \/ Decompress

SpecCodec == InitCodec /\ [][NextCodec]_vars

-----------------------------------------------------------------------------
(* The grid functions of a Board applied to single inputs: every position in *)
(* and just outside an empty board of side 1, 5, 9, and every cell index.    *)

\* the sides 4*i+1 for i = 0..MaxGridI
MaxGridI == 2

\* an empty board of one of the sides; the input is a position in or just
\* outside it, or one of its cell indices; nothing has been computed
InitGrid ==
    /\ board \in {NewBoard(Layout(4 * i + 1, 0..((4 * i + 1) * (4 * i + 1) - 1)),
                            Position(0, 0)) : i \in 0..MaxGridI}
    /\ setup \in {[kind |-> "position", p |-> p, index |-> 0] : p \in Probes(board)}
               \cup {[kind |-> "index", p |-> Position(0, 0), index |-> i] :
                        i \in 0..(board.side * board.side - 1)}
    /\ driver = [pc |-> "input", index |-> 0, position |-> Position(0, 0),
                 hex |-> <<>>, near |-> {}, nearOf |-> {}]
    /\ pc = "grid"
    /\ moveCount = 0
    /\ report = NewReport("", "", <<>>, Cat)
    /\ req = NoRequest
    /\ timers = {}
    /\ requestsIssued = 0
    /\ moveCalls = 0
    /\ lastMove = NoMove

\* positionToIndex(p), and indexToPosition of the result
PositionToIndex ==
    /\ driver.pc = "input"
    /\ setup.kind = "position"
    /\ driver' = [driver EXCEPT
                     !.pc = "indexed",
                     !.index = positionToIndex(board, setup.p),
                     !.position = indexToPosition(board, positionToIndex(board, setup.p))]
    /\ UNCHANGED <<board, pc, moveCount, report, req, timers, requestsIssued, moveCalls,
                   lastMove, setup>>

\* indexToPosition(index), and positionToIndex of the result
IndexToPosition ==
    /\ driver.pc = "input"
    /\ setup.kind = "index"
    /\ driver' = [driver EXCEPT
                     !.pc = "positioned",
                     !.position = indexToPosition(board, setup.index),
                     !.index = positionToIndex(board, indexToPosition(board, setup.index))]
    /\ UNCHANGED <<board, pc, moveCount, report, req, timers, requestsIssued, moveCalls,
                   lastMove, setup>>

\* the six neighbour functions of p, and isNeighbor from and to the positions
\* at most two rows and two columns away from p
NeighborsOf ==
    /\ driver.pc = "input"
    /\ setup.kind = "position"
    /\ LET Around(p) == {Position(p.x + dx, p.y + dy) : dx \in -2..2, dy \in -2..2}
       IN driver' = [driver EXCEPT
                     !.pc = "neighbors",
                     !.hex = [E |-> E(setup.p), W |-> W(setup.p),
                              NE |-> NE(setup.p), NW |-> NW(setup.p),
                              SE |-> SE(setup.p), SW |-> SW(setup.p)],
                     !.near = {q \in Around(setup.p) : isNeighbor(setup.p, q)},
                     !.nearOf = {q \in Around(setup.p) : isNeighbor(q, setup.p)}]
    /\ UNCHANGED <<board, pc, moveCount, report, req, timers, requestsIssued, moveCalls,
                   lastMove, setup>>

NextGrid == PositionToIndex \/ IndexToPosition \/ NeighborsOf

SpecGrid == InitGrid /\ [][NextGrid]_vars

-----------------------------------------------------------------------------
(* Properties of the match simulator *)

MatchDone == pc = "done"

LastReport == report.moves[Len(report.moves)]

\* the match was ended by a failed move request
MatchFailed == Len(report.moves) > 0 /\ LastReport.error /= NoError

\* the side that won, "none" when the match stopped undecided
MatchWinner ==
    IF MatchFailed THEN OtherTurn(LastReport.turn) ELSE getGameResult(board).winner

MoveScore(t) == IF t = Cat THEN report.catMoveScore ELSE report.catcherMoveScore

ScoresSplit(winner) ==
    /\ report.catMoveScore + report.catcherMoveScore = MaxMoves(board)
    /\ MoveScore(winner) = MaxMoves(board) - moveCount
    /\ MoveScore(OtherTurn(winner)) = moveCount

C2_FailureEndsMatch ==
    [][/\ (pc = "await" /\ req.resolveCalls = 0
              /\ (req'.id /= req.id \/ req'.resolveCalls > 0))
          => /\ Len(report'.moves) = Len(report.moves) + 1
             /\ SubSeq(report'.moves, 1, Len(report.moves)) = report.moves
             /\ report'.moves[Len(report'.moves)].error = NoError
                  => /\ req'.id /= req.id \/ req'.result.error = NoError
                     /\ validateMove(board, report'.moves[Len(report'.moves)].move)
             /\ (report'.moves[Len(report'.moves)].error /= NoError
                    \/ (req'.id = req.id /\ req'.result.error /= NoError))
                  => /\ pc' = "done"
                     /\ report'.moves[Len(report'.moves)].error /= NoError
                     /\ board' = board
                     /\ moveCount' = moveCount
                     /\ requestsIssued' = requestsIssued
                     /\ req'.id = req.id
                     /\ report'.catMoveScore =
                           IF board.turn = Cat THEN moveCount
                           ELSE MaxMoves(board) - moveCount
                     /\ report'.catcherMoveScore =
                           IF board.turn = Cat THEN MaxMoves(board) - moveCount
                           ELSE moveCount
       /\ pc = "done"
          => UNCHANGED <<board, pc, moveCount, report, requestsIssued, moveCalls>>
      ]_vars

C2_Witness ==
    /\ MatchDone
    /\ MatchFailed
    /\ LastReport.error = InvalidMove
    /\ LastReport.turn = Catcher
    /\ moveCount >= 3
    /\ Len(report.moves) = moveCount + 1

\* the Board object of the match exists
BoardBuilt == pc \in {"await", "done"}

\* C3: the game result is evaluated before every move request, so a request is
\* outstanding only while the game is not over; and once the game is over no
\* request is made, board.move() is not called and the board stays as it is.
C3_NoMoveAfterOver ==
    /\ [](pc = "await" => ~getGameResult(board).isOver)
    /\ [][(BoardBuilt /\ getGameResult(board).isOver)
             => /\ requestsIssued' = requestsIssued
                /\ moveCalls' = moveCalls
                /\ board' = board]_vars

C3_Witness ==
    /\ MatchDone
    /\ getGameResult(board).winner = Cat
    /\ moveCount >= 2
    /\ moveCalls = moveCount
    /\ requestsIssued = moveCount

\* C4: when the timer of a request fires before the child has exited, the request
\* resolves as a timeout (no move, 'Timeout exceeded', time = timeout), the child
\* has been sent SIGKILL, and the match records the timeout and ends; a callback
\* that exec delivers afterwards does not change that.
C4_TimerFirstIsTimeout ==
    /\ (req.id > 0 /\ req.timerFired = "beforeExit" /\ req.resolved)
       => /\ req.result = TimeoutResult
          /\ ~req.result.hasMove
          /\ req.killed
          /\ req.child = "killed"
          /\ MatchDone
          /\ MatchFailed
          /\ LastReport.error = TimeoutExceeded
          /\ LastReport.time = timeout
    /\ (req.id > 0 /\ req.killedBy = "timer")
       => /\ req.resolved
          /\ req.result = TimeoutResult
          /\ LastReport.error = TimeoutExceeded

C4_Witness ==
    /\ req.timerFired = "beforeExit"
    /\ req.killedBy = "timer"
    /\ req.cbDone
    /\ req.result = TimeoutResult
    /\ LastReport.turn = Catcher
    /\ moveCount >= 1

\* C5: resolve() is called at most once per request, every resolved request has
\* put exactly one MoveReport into the log, and a callback that runs after the
\* request is resolved changes neither its result nor the match.
C5_ResolvedOnce ==
    /\ [](req.resolveCalls <= 1)
    /\ [](BoardBuilt =>
            Len(report.moves) = requestsIssued - (IF pc = "await" THEN 1 ELSE 0))
    /\ [][(BoardBuilt /\ req.resolved /\ req'.id = req.id)
             => /\ req'.result = req.result
                /\ req'.resolveCalls = req.resolveCalls
                /\ UNCHANGED <<board, pc, moveCount, report, requestsIssued, moveCalls>>
         ]_vars

C5_Witness ==
    /\ req.resolved
    /\ req.timerFired = "afterExit"
    /\ req.killedBy = "timer"
    /\ req.cbDone
    /\ req.resolveCalls = 1
    /\ Len(report.moves) >= 2

\* the exec callback was the first completion of the latest request
CallbackFirst ==
    /\ req.id > 0
    /\ req.cbDone
    /\ req.timerFired = "no"
    /\ ~req.errDone

-----------------------------------------------------------------------------
(* Properties of the Board *)

\* the six neighbours of c by the parity table (odd row: c.y is not even)
TableNeighbors(c) ==
    IF c.y % 2 = 1
    THEN {Position(c.x + 1, c.y), Position(c.x - 1, c.y),
          Position(c.x + 1, c.y - 1), Position(c.x, c.y - 1),
          Position(c.x, c.y + 1), Position(c.x + 1, c.y + 1)}
    ELSE {Position(c.x + 1, c.y), Position(c.x - 1, c.y),
          Position(c.x, c.y - 1), Position(c.x - 1, c.y - 1),
          Position(c.x - 1, c.y + 1), Position(c.x, c.y + 1)}

\* the cell p of the grid is inside the board and holds '.'
CellOpen(b, p) ==
    LET h == b.side \div 2
    IN  /\ -h <= p.x /\ p.x <= h
        /\ -h <= p.y /\ p.y <= h
        /\ b.board[(p.y + h) * b.side + (p.x + h) + 1] = "."

\* the legal moves as the rules state them
Legal(b, p) ==
    IF b.turn = Cat
    THEN p \in TableNeighbors(b.catPosition) /\ CellOpen(b, p)
    ELSE p /= b.catPosition /\ CellOpen(b, p)

\* C7: validateMove(p) is true exactly for the legal moves: on Cat's turn the
\* unblocked neighbours of the cat, on Catcher's turn the unblocked cells in bounds
\* other than the cat's; for every position in and just outside the board.
C7_ValidateMove ==
    pc = "board" => \A p \in Probes(board) : validateMove(board, p) <=> Legal(board, p)

C7_Witness ==
    /\ pc = "board"
    /\ lastMove.called /\ ~lastMove.threw
    /\ board.turn = Cat
    /\ board.catPosition = Position(1, -1)
    /\ validateMove(board, Position(2, -2))
    /\ ~validateMove(board, lastMove.position)
    /\ ~validateMove(board, Position(0, -2))

\* the game result as the rules state it
Result(b) ==
    LET h == b.side \div 2
    IN  IF Abs(b.catPosition.x) = h \/ Abs(b.catPosition.y) = h
        THEN [isOver |-> TRUE, winner |-> Cat]
        ELSE IF \A q \in TableNeighbors(b.catPosition) : ~CellOpen(b, q)
        THEN [isOver |-> TRUE, winner |-> Catcher]
        ELSE [isOver |-> FALSE, winner |-> "none"]

\* C8: getGameResult() is a Cat win iff the cat is on the edge, else a Catcher win
\* iff the six neighbours are blocked or out of bounds, else not over; the edge
\* goes first; the turn does not matter.
C8_GameResult ==
    pc = "board" =>
        /\ getGameResult(board) = Result(board)
        /\ getGameResult([board EXCEPT !.turn = Cat])
             = getGameResult([board EXCEPT !.turn = Catcher])

C8_Witness ==
    /\ pc = "board"
    /\ lastMove.called /\ ~lastMove.threw
    /\ Abs(board.catPosition.x) = SideOver2(board)
    /\ \A q \in TableNeighbors(board.catPosition) : ~CellOpen(board, q)
    /\ getGameResult(board) = [isOver |-> TRUE, winner |-> Cat]

\* C9: a move() call that succeeds leaves the turn at the opposite side, after a
\* cat move and after a catcher move.
C9_TurnAlternates ==
    [][(pc = "board" /\ moveCalls' = moveCalls + 1 /\ ~lastMove'.threw)
          => /\ board.turn = Cat => board'.turn = Catcher
             /\ board.turn = Catcher => board'.turn = Cat]_vars

C9_Witness ==
    /\ pc = "board"
    /\ lastMove.called /\ ~lastMove.threw
    /\ board.turn = Cat
    /\ ~CellOpen(board, lastMove.position)

\* C10: move(p) with validateMove(p) false throws and leaves the turn, the cat's
\* position and every cell as they were.
C10_FailedMoveNoChange ==
    [][(pc = "board" /\ moveCalls' = moveCalls + 1
            /\ ~validateMove(board, lastMove'.position))
          => /\ lastMove'.threw
             /\ board'.turn = board.turn
             /\ board'.catPosition = board.catPosition
             /\ board'.board = board.board
             /\ board'.side = board.side]_vars

C10_Witness ==
    /\ pc = "board"
    /\ lastMove.called /\ lastMove.threw
    /\ board.turn = Catcher
    /\ lastMove.position = board.catPosition

-----------------------------------------------------------------------------
(* Properties of the Board: frame of move(), the cat's cell, the constructor *)

\* C11: a successful move(p) changes only what the mover owns.  On Cat's turn
\* the cat position becomes p and the grid is unchanged; on Catcher's turn the
\* cell at positionToIndex(p) becomes blocked, every other cell and the cat
\* position are unchanged.  The grid keeps N*N cells and no blocked cell
\* becomes empty.
C11_MoveFrame ==
    [][(moveCalls' = moveCalls + 1 /\ ~lastMove'.threw) =>
          LET p == lastMove'.position
              i == positionToIndex(board, p) + 1
          IN  /\ board'.side = board.side
              /\ Len(board'.board) = board.side * board.side
              /\ \A k \in 1..Len(board.board) :
                     board.board[k] = "#" => board'.board[k] = "#"
              /\ IF board.turn = Cat
                 THEN /\ board'.catPosition = p
                      /\ board'.board = board.board
                 ELSE /\ board'.board[i] = "#"
                      /\ \A k \in (1..Len(board.board)) \ {i} :
                             board'.board[k] = board.board[k]
                      /\ board'.catPosition = board.catPosition]_vars

\* a catcher has just blocked a cell that is not the centre
C11_Witness ==
    /\ pc = "board"
    /\ lastMove.called
    /\ ~lastMove.threw
    /\ board.turn = Cat
    /\ lastMove.position /= Position(0, 0)
    /\ lastMove.position.x /= lastMove.position.y
    /\ getContent(board, lastMove.position)

\* C12: in a match started from a layout whose centre cell is empty, with the
\* cat at (0,0), the grid cell at the cat's position is never blocked.
C12_CatCellOpen ==
    pc \in {"await", "done"} => ~getContent(board, board.catPosition)

\* the catcher named the cat's cell after the cat had moved, and was refused
C12_Witness ==
    /\ pc = "done"
    /\ moveCount >= 1
    /\ board.turn = Catcher
    /\ lastMove.threw
    /\ lastMove.position = board.catPosition
    /\ ~getContent(board, board.catPosition)

\* C13: the cat's position stays within [-floor(N/2), floor(N/2)] on both
\* axes; a position outside reads as blocked and is no valid move for either
\* side.
C13_CatInBounds ==
    /\ -SideOver2(board) <= board.catPosition.x
    /\ board.catPosition.x <= SideOver2(board)
    /\ -SideOver2(board) <= board.catPosition.y
    /\ board.catPosition.y <= SideOver2(board)
    /\ \A p \in Probes(board) :
          (Abs(p.x) > SideOver2(board) \/ Abs(p.y) > SideOver2(board)) =>
              /\ getContent(board, p)
              /\ ~validateMove(board, p)

\* a cat on the edge was asked to step off the board and stayed
C13_Witness ==
    /\ pc = "board"
    /\ lastMove.called
    /\ lastMove.threw
    /\ board.turn = Cat
    /\ isNeighbor(board.catPosition, lastMove.position)
    /\ Abs(lastMove.position.x) > SideOver2(board)

\* number of the layout's characters that are not white space
CellCount(layout) == Cardinality({i \in 1..Len(layout) : layout[i] /= " "})

\* C14: new Board(layout, ...) succeeds iff the layout has N*N cells, white
\* space not counted, for some N = 4k+1 with k >= 0; every other length raises
\* the construction error.
C14_Constructor ==
    pc \in {"built", "threw"} =>
        /\ (pc = "built") <=>
               (\E k \in 0..MaxLayoutLen :
                   CellCount(setup.layout) = (4 * k + 1) * (4 * k + 1))
        /\ pc = "built" =>
               /\ board.side * board.side = CellCount(setup.layout)
               /\ Len(board.board) = CellCount(setup.layout)

\* a 5x5 layout written with white space was accepted
C14_Witness ==
    /\ pc = "built"
    /\ board.side = 5
    /\ Len(setup.layout) > 25

-----------------------------------------------------------------------------
(* Properties of the match report: replay and time penalties *)

\* the board after the moves i.. of the log that carry no error have been
\* applied to b in order, and whether move() accepted each of them
RECURSIVE ReplayFrom(_, _, _)
ReplayFrom(b, moves, i) ==
    IF i > Len(moves) THEN [ok |-> TRUE, board |-> b]
    ELSE IF moves[i].error /= NoError THEN ReplayFrom(b, moves, i + 1)
    ELSE LET moved == move(b, moves[i].move)
         IN  IF moved.threw THEN [ok |-> FALSE, board |-> b]
             ELSE ReplayFrom(moved.board, moves, i + 1)

Replay(rep) ==
    ReplayFrom(NewBoard(rep.initialState.board, rep.initialState.catPosition), rep.moves, 1)

\* C16: a Board built from report.initialState, with the recorded moves that
\* carry no error applied in order, is the simulator's board (grid, cat
\* position, turn), and move() accepts every replayed move.
C16_ReplayReproduces ==
    pc \in {"await", "done"} =>
        LET replayed == Replay(report)
        IN  /\ replayed.ok
            /\ replayed.board = board
            /\ report.initialState.turn = Cat

\* a finished match with moves of both sides and a refused last entry
C16_Witness ==
    /\ pc = "done"
    /\ moveCount >= 2
    /\ MatchFailed
    /\ board.catPosition /= Position(0, 0)
    /\ board.board /= CleanLayout(setup.layout)

\* C17: the time penalty of a valid move is added to the time-penalty field of
\* the side whose turn it was when the move was requested, and the other side's
\* field is unchanged by that move.
C17_PenaltyToMover ==
    [][(Len(report'.moves) = Len(report.moves) + 1
        /\ report'.moves[Len(report'.moves)].error = NoError) =>
          LET m == report'.moves[Len(report'.moves)]
          IN  /\ m.turn = board.turn
              /\ IF m.turn = Cat
                 THEN /\ report'.catTimeScore =
                            report.catTimeScore + calculateTimePenalty(m.time)
                      /\ report'.catcherTimeScore = report.catcherTimeScore
                 ELSE /\ report'.catcherTimeScore =
                            report.catcherTimeScore + calculateTimePenalty(m.time)
                      /\ report'.catTimeScore = report.catTimeScore]_vars

\* both sides have made valid moves with different elapsed times
C17_Witness ==
    /\ Len(report.moves) >= 2
    /\ report.moves[1].error = NoError
    /\ report.moves[2].error = NoError
    /\ report.moves[1].time /= report.moves[2].time
    /\ report.catTimeScore /= report.catcherTimeScore
    /\ report.catcherTimeScore > 0

-----------------------------------------------------------------------------
(* Properties of the competition driver and of calculateUserScores *)

Written == driver.pc \in {"written", "loaded"}

\* the entries of matchReports that satisfy Test
MatchesWhere(Test(_)) ==
    {k \in 1..Len(driver.matchReports) : Test(driver.matchReports[k])}

WinsAsCat(u) ==
    LET Won(m) == m.cat = u /\ m.catMoveScore > m.catcherMoveScore
    IN  Cardinality(MatchesWhere(Won))

WinsAsCatcher(u) ==
    LET Won(m) == m.catcher = u /\ m.catcherMoveScore > m.catMoveScore
    IN  Cardinality(MatchesWhere(Won))

\* C18: in the result of calculateUserScores, a user's catWins is the number of
\* matches played as cat with catMoveScore > catcherMoveScore, and catcherWins
\* the number played as catcher with catcherMoveScore > catMoveScore; a match
\* with equal move-scores counts for neither, and a user without such a match
\* has 0.
C18_WinCounters ==
    Written =>
        \A i \in 1..Len(driver.highScores) :
            LET score == driver.highScores[i]
            IN  /\ score.catWins = JsNum(WinsAsCat(score.username))
                /\ score.catcherWins = JsNum(WinsAsCatcher(score.username))

RECURSIVE SeqSum(_)
SeqSum(values) == IF values = <<>> THEN 0 ELSE Head(values) + SeqSum(Tail(values))

\* raw / (N * N) in 1/ScoreUnit, N the side of the match's board
Share(raw, m) ==
    LET N == IntSqrt(CellCount(m.initialState.board))
    IN  (raw * ScoreUnit) \div (N * N)

\* the sum of Value(m) over the matches m in which the user played the role
SumAs(role, u, Value(_)) ==
    SeqSum([k \in 1..Len(driver.matchReports) |->
               LET m == driver.matchReports[k]
               IN  IF (IF role = Cat THEN m.cat ELSE m.catcher) = u THEN Value(m) ELSE 0])

\* C19: a user's cat-role fields are the sums, over exactly the matches played
\* as cat, of catMoveScore / N*N and of catTimeScore; the catcher-role fields
\* the sums, over exactly the matches played as catcher, of
\* catcherMoveScore / N*N and of catcherTimeScore.
C19_RoleSums ==
    Written =>
        \A i \in 1..Len(driver.highScores) :
            LET score == driver.highScores[i]
                u == score.username
                CatMove(m) == Share(m.catMoveScore, m)
                CatTime(m) == m.catTimeScore
                CatcherMove(m) == Share(m.catcherMoveScore, m)
                CatcherTime(m) == m.catcherTimeScore
            IN  /\ score.catMoveScore = SumAs(Cat, u, CatMove)
                /\ score.catTimeScore = SumAs(Cat, u, CatTime)
                /\ score.catcherMoveScore = SumAs(Catcher, u, CatcherMove)
                /\ score.catcherTimeScore = SumAs(Catcher, u, CatcherTime)

\* boards of two sizes were played, and some user scored and was timed in both
\* roles while another was never timed as cat
C19_Witness ==
    /\ Written
    /\ Len(setup.initialStates) = 2
    /\ \E i, j \in 1..Len(driver.highScores) :
          /\ driver.highScores[i].catMoveScore > ScoreUnit
          /\ driver.highScores[i].catcherMoveScore > 0
          /\ driver.highScores[i].catTimeScore > 0
          /\ driver.highScores[i].catcherTimeScore > 0
          /\ driver.highScores[i].catTimeScore /= driver.highScores[i].catcherTimeScore
          /\ driver.highScores[j].catTimeScore = 0

\* C20: the ranking holds every participant exactly once, with
\* catScore = catMoveScore - catTimeScore, catcherScore = catcherMoveScore -
\* catcherTimeScore, totalScore = catScore + catcherScore, ordered by
\* totalScore descending.
C20_Ranking ==
    Written =>
        /\ Len(driver.highScores) = Len(setup.users)
        /\ \A k \in 1..Len(setup.users) :
              Cardinality({i \in 1..Len(driver.highScores) :
                  driver.highScores[i].username = setup.users[k].username}) = 1
        /\ \A i \in 1..Len(driver.highScores) :
              LET score == driver.highScores[i]
              IN  /\ score.catScore =
                        score.catMoveScore * 5000 - score.catTimeScore * ScoreUnit
                  /\ score.catcherScore =
                        score.catcherMoveScore * 5000 - score.catcherTimeScore * ScoreUnit
                  /\ score.totalScore = score.catScore + score.catcherScore
        /\ \A i \in 1..(Len(driver.highScores) - 1) :
              driver.highScores[i].totalScore >= driver.highScores[i + 1].totalScore

\* three different totals, ranked in another order than the users array
C20_Witness ==
    /\ Written
    /\ Len(driver.highScores) = 3
    /\ driver.highScores[1].totalScore > driver.highScores[2].totalScore
    /\ driver.highScores[2].totalScore > driver.highScores[3].totalScore
    /\ driver.highScores[1].username = "u3"
    /\ driver.highScores[3].username = "u2"
    /\ driver.highScores[3].catTimeScore > 0

-----------------------------------------------------------------------------
(* Properties of the competition driver: the matches it runs *)

\* the reports of the matches on that layout with that cat and catcher
ReportsOf(layout, cat, catcher) ==
    {k \in 1..Len(driver.matchReports) :
        /\ driver.matchReports[k].initialState.board = layout
        /\ driver.matchReports[k].cat = cat
        /\ driver.matchReports[k].catcher = catcher}

\* C25: for every board and every ordered pair of distinct participants main
\* runs exactly one match, and none of a participant against itself: b boards
\* and n participants give b*n*(n-1) reports, one match after the other, also
\* after matches that ended by a move failure.
C25_AllPairsOnce ==
    /\ driver.pc \in {"loop", "written"} =>
          /\ \A k \in 1..Len(driver.matchReports) :
                /\ driver.matchReports[k].cat /= driver.matchReports[k].catcher
                /\ driver.matchReports[k].cat = Matches[k].cat.username
          /\ \A s \in 1..Len(setup.initialStates), i, j \in 1..Len(setup.users) :
                Cardinality(ReportsOf(setup.initialStates[s], setup.users[i].username,
                                      setup.users[j].username))
                    <= (IF i = j THEN 0 ELSE 1)
    /\ Written =>
          /\ Len(driver.matchReports) =
                Len(setup.initialStates) * Len(setup.users) * (Len(setup.users) - 1)
          /\ \A s \in 1..Len(setup.initialStates), i, j \in 1..Len(setup.users) :
                i /= j =>
                   Cardinality(ReportsOf(setup.initialStates[s], setup.users[i].username,
                                         setup.users[j].username)) = 1

\* two boards and three users: twelve matches, the first ended by a failure
C25_Witness ==
    /\ Written
    /\ Len(setup.initialStates) = 2
    /\ Len(setup.users) = 3
    /\ Len(driver.matchReports) = 12
    /\ driver.matchReports[7].moves /= <<>>
    /\ driver.matchReports[7].moves[Len(driver.matchReports[7].moves)].error /= NoError

-----------------------------------------------------------------------------
(* Properties of the report codec *)

\* C21: for every string s over '.' and '#', of any length from 0 up to the
\* bound, decompressBoard(compressBoard(s)) = s.
C21_BoardRoundTrip ==
    (pc = "codec" /\ driver.pc = "decompressed") => driver.decompressed = setup.board

\* a board with a run of ten or more cells, a single cell and a run at its end
C21_Witness ==
    /\ pc = "codec"
    /\ driver.pc = "decompressed"
    /\ Len(setup.board) = MaxCodecLen
    /\ driver.compressed = <<"1", "0", ".", "#">>
    /\ driver.decompressed = setup.board

Loaded == driver.pc = "loaded"

\* C22: deoptimizeCompetitionReport(optimizeCompetitionReport(report)) equals
\* report field for field, absent optional fields left out: every username,
\* turn, time, move, error, score and initial state is reconstructed, for any
\* number of participants and matches.
C22_ReportRoundTrip ==
    driver.pc \in {"loaded", "loadFailed"} =>
        /\ Loaded
        /\ driver.loaded.matches = driver.matchReports
        /\ driver.loaded.highScores = driver.highScores

-----------------------------------------------------------------------------
(* Properties of failed requests and of the request discipline *)

\* the errors of a request that produced no usable move
NoMoveErrors == {TimeoutExceeded, CommandFailed, ParseError, ProcessError}

\* C23: a MoveReport recorded for a failed request that produced no usable move
\* (timeout, process error, parse error) has no move position: the move field
\* is absent in the match report, and the compact form has no mv field.
C23_NoMoveOnFailure ==
    \A k \in 1..Len(report.moves) :
        report.moves[k].error \in NoMoveErrors =>
            /\ "move" \notin DOMAIN report.moves[k]
            /\ ~optimizeMove(<<report.cat, report.catcher>>, report.moves[k]).mv.present

\* C24: a request whose process ends with a non-zero exit, or with a signal that
\* the simulator's timeout path did not send, before the timeout has elapsed is
\* classified as a process error (the error text of the failure, time = the
\* elapsed time) and not as a timeout.
C24_ProcessErrorNotTimeout ==
    (CallbackFirst /\ req.cbError /\ ~req.killed /\ req.cbTime < timeout) =>
        /\ req.result.error = CommandFailed
        /\ req.result.time = req.cbTime
        /\ ~req.result.hasMove

\* requestMove calls whose promise has not been settled: every settled request
\* has left one entry in report.moves
Outstanding == requestsIssued - Len(report.moves)

\* C26: at every moment at most one move request is outstanding: runMatch awaits
\* the outcome of the current request before it issues the next, and when the
\* match has returned (so that main may start the next match) none is left.
C26_OneOutstanding ==
    /\ Outstanding \in {0, 1}
    /\ (Outstanding = 1) <=> (pc = "await" /\ ~req.resolved /\ req.id = requestsIssued)
    /\ pc \in {"start", "threw", "done"} => Outstanding = 0

C26_Witness ==
    /\ pc = "await"
    /\ requestsIssued >= 3
    /\ Outstanding = 1
    /\ ~req.resolved

\* runMatch has returned its report or thrown
Returned == pc \in {"done", "threw"}

-----------------------------------------------------------------------------
(* Properties of the scores of a match *)

\* the sum of calculateTimePenalty over the error-free recorded moves of a side
RECURSIVE PenaltyOfValidMoves(_, _)
PenaltyOfValidMoves(moves, t) ==
    IF moves = <<>> THEN 0
    ELSE (IF Head(moves).turn = t /\ Head(moves).error = NoError
          THEN calculateTimePenalty(Head(moves).time) ELSE 0)
         + PenaltyOfValidMoves(Tail(moves), t)

\* C29: the time penalty is accrued only for a move that passes validateMove
\* and is applied: a request that ends as invalid move, timeout, process error
\* or parse error adds nothing, so each side's time-penalty total equals the sum
\* of the penalties of that side's recorded error-free moves.
C29_PenaltyOnlyForValidMoves ==
    /\ report.catTimeScore = PenaltyOfValidMoves(report.moves, Cat)
    /\ report.catcherTimeScore = PenaltyOfValidMoves(report.moves, Catcher)

\* C30: the side that wins a match, by reaching the edge, by trapping the cat
\* or by the opponent's failure, ends with a strictly higher move-score than the
\* loser, for every number of moves the match took.
C30_WinnerScoresHigher ==
    (MatchDone /\ MatchWinner /= "none") =>
        MoveScore(MatchWinner) > MoveScore(OtherTurn(MatchWinner))

-----------------------------------------------------------------------------
(* Properties of the course of a match *)

\* every recorded request was answered with a legal move
OnlyLegalMoves == \A k \in 1..Len(report.moves) : report.moves[k].error = NoError

\* C31: when both agents only ever return legal moves, every match ends with a
\* decided result (getGameResult().isOver with a winner): the loop never exits
\* because moveCount reached N*N with the game undecided and both move-scores 0.
C31_LegalAgentsDecide ==
    (MatchDone /\ OnlyLegalMoves) =>
        /\ getGameResult(board).isOver
        /\ getGameResult(board).winner /= "none"
        /\ ~(report.catMoveScore = 0 /\ report.catcherMoveScore = 0)

\* the turn of the k-th request of a match that Cat opens
TurnOfEntry(k) == IF k % 2 = 1 THEN Cat ELSE Catcher

\* C32: the move log of every match has this shape: the first entry is a Cat
\* move, the turns of consecutive entries alternate, each entry's username is
\* the cat user on Cat's turn and the catcher user on Catcher's turn, at most
\* one entry carries an error and it is the last one, and the number of
\* error-free entries equals moveCount.
C32_MoveLogShape ==
    /\ \A k \in 1..Len(report.moves) :
          /\ report.moves[k].turn = TurnOfEntry(k)
          /\ report.moves[k].username =
                (IF report.moves[k].turn = Cat THEN report.cat ELSE report.catcher)
          /\ report.moves[k].error /= NoError => k = Len(report.moves)
    /\ Cardinality({k \in 1..Len(report.moves) : report.moves[k].error = NoError})
           = moveCount

\* four legal moves, then a failed answer of the cat
C32_Witness ==
    /\ MatchDone
    /\ Len(report.moves) = 5
    /\ moveCount = 4
    /\ report.moves[5].error /= NoError
    /\ report.moves[5].username = Users[1]
    /\ report.moves[4].username = Users[2]

\* C33: when a move request resolves, by any path, its own timeout timer is no
\* longer pending (it was cleared or has fired), so no timer callback of a
\* resolved request runs later during another request.
C33_TimerReleased ==
    /\ req.resolved => (req.id \notin timers /\ ~req.timeoutHandle)
    /\ \A id \in timers : id = req.id /\ ~req.resolved /\ req.timerFired = "no"

\* the third request was settled by the exec callback, its timer cleared unfired
C33_Witness ==
    /\ req.id >= 3
    /\ req.resolved
    /\ req.cbDone
    /\ req.timerFired = "no"
    /\ timers = {}

-----------------------------------------------------------------------------
(* Properties of the decoder across calls *)

\* C34: no codec call shares state with another call: decoding a report B after
\* a different report A in the same process gives the same result as decoding B
\* alone (B's matches and high scores, not A's).
C34_NoSharedCodecState ==
    (driver.pc = "reloaded" /\ driver.other /= driver.optimizedReport) =>
        driver.reloaded = deoptimizeResult(driver.other)

-----------------------------------------------------------------------------
(* Properties of the grid functions *)

\* C35: for every position p within bounds indexToPosition(positionToIndex(p))
\* = p and positionToIndex(p) = (p.y + N div 2) * N + (p.x + N div 2) lies in
\* 0..N*N-1; for every index i in 0..N*N-1 positionToIndex(indexToPosition(i))
\* = i with indexToPosition(i) in bounds; the centre (0,0) has index N*N div 2.
C35_IndexBijection ==
    LET N == board.side
        h == N \div 2
    IN  /\ (driver.pc = "indexed" /\ setup.p \in InBounds(N)) =>
              /\ driver.index = (setup.p.y + h) * N + (setup.p.x + h)
              /\ driver.index \in 0..(N * N - 1)
              /\ driver.position = setup.p
              /\ setup.p = Position(0, 0) => driver.index = (N * N) \div 2
        /\ driver.pc = "positioned" =>
              /\ driver.position \in InBounds(N)
              /\ driver.index = setup.index

\* a cell with negative coordinates on the largest board, there and back
C35_Witness ==
    /\ driver.pc = "indexed"
    /\ board.side = 9
    /\ setup.p = Position(-3, -4)
    /\ driver.index = 1
    /\ driver.position = setup.p

\* C36: the six neighbour functions agree with the parity table for every
\* position, negative and odd-negative rows included (odd: p.y is not even):
\* E (x+1,y), W (x-1,y), NE (x+1,y-1) if odd else (x,y-1), NW (x,y-1) if odd
\* else (x-1,y-1), SE (x,y+1) if odd else (x-1,y+1), SW (x+1,y+1) if odd else
\* (x,y+1).
C36_NeighborTable ==
    driver.pc = "neighbors" =>
        LET x == setup.p.x
            y == setup.p.y
            odd == y % 2 = 1
        IN  /\ driver.hex.E = Position(x + 1, y)
            /\ driver.hex.W = Position(x - 1, y)
            /\ driver.hex.NE = (IF odd THEN Position(x + 1, y - 1) ELSE Position(x, y - 1))
            /\ driver.hex.NW = (IF odd THEN Position(x, y - 1) ELSE Position(x - 1, y - 1))
            /\ driver.hex.SE = (IF odd THEN Position(x, y + 1) ELSE Position(x - 1, y + 1))
            /\ driver.hex.SW = (IF odd THEN Position(x + 1, y + 1) ELSE Position(x, y + 1))

\* the neighbours of a cell in an odd row above the centre
C36_Witness ==
    /\ driver.pc = "neighbors"
    /\ setup.p = Position(-2, -3)
    /\ driver.hex.NE = Position(-1, -4)
    /\ driver.hex.SE = Position(-2, -2)

\* C37: the neighbour relation is symmetric and irreflexive with six distinct
\* neighbours: q is a neighbour of p iff p is a neighbour of q, p is never its
\* own neighbour, and the six neighbours of p are pairwise different.
C37_NeighborRelation ==
    driver.pc = "neighbors" =>
        /\ driver.near = driver.nearOf
        /\ setup.p \notin driver.near
        /\ Cardinality(driver.near) = 6
        /\ Cardinality({driver.hex.E, driver.hex.W, driver.hex.NE,
                        driver.hex.NW, driver.hex.SE, driver.hex.SW}) = 6
        /\ driver.near = {driver.hex.E, driver.hex.W, driver.hex.NE,
                          driver.hex.NW, driver.hex.SE, driver.hex.SW}

\* a cell of an odd row below the centre and its neighbour in the even row
C37_Witness ==
    /\ driver.pc = "neighbors"
    /\ setup.p = Position(1, 3)
    /\ Position(2, 4) \in driver.near
    /\ Position(2, 4) \in driver.nearOf
    /\ Position(0, 4) \notin driver.near

-----------------------------------------------------------------------------
(* Properties of the legal moves *)

\* the positions that validateMove accepts
ValidMoves(b) == {p \in Probes(b) : validateMove(b, p)}

\* C38: in every board state where getGameResult().isOver is false the side to
\* move has at least one legal move, on Cat's turn and on Catcher's turn.
C38_UndecidedHasMove ==
    (pc = "board" /\ ~getGameResult(board).isOver) => ValidMoves(board) /= {}

\* an undecided board, five neighbours of the cat blocked, after a catcher move
C38_Witness ==
    /\ pc = "board"
    /\ lastMove.called /\ ~lastMove.threw
    /\ board.turn = Cat
    /\ ~getGameResult(board).isOver
    /\ Cardinality(ValidMoves(board)) = 1

\* C39: getValidMovePositions() returns exactly the positions p for which
\* validateMove(p) is true: none missing, none illegal, none twice; for both
\* turns.
C39_ValidMovePositions ==
    pc = "board" =>
        LET moves == getValidMovePositions(board)
        IN  /\ {moves[k] : k \in 1..Len(moves)} = ValidMoves(board)
            /\ Cardinality({moves[k] : k \in 1..Len(moves)}) = Len(moves)

\* the list for the catcher after a cat move next to five blocked cells
C39_Witness ==
    /\ pc = "board"
    /\ lastMove.called /\ ~lastMove.threw
    /\ board.turn = Catcher
    /\ Len(getValidMovePositions(board)) = 19
    /\ lastMove.position \notin ValidMoves(board)

-----------------------------------------------------------------------------
(* Properties of the time scores *)

\* C40: during every match catTimeScore and catcherTimeScore are >= 0 and never
\* decrease, whatever processing time the agent prints (zero and negative
\* numbers included): no move lowers a side's accumulated time penalty.
C40_TimeScoresGrow ==
    /\ [](report.catTimeScore >= 0 /\ report.catcherTimeScore >= 0)
    /\ [][/\ report'.catTimeScore >= report.catTimeScore
          /\ report'.catcherTimeScore >= report.catcherTimeScore]_vars

====
